---- MODULE Spec2Model ----
(***************************************************************************)
(* A model of the UDX desktop application's privileged (main) process:     *)
(*   - the window registry          (src/src/main/core/windowManager.ts)   *)
(*   - the IPC router               (src/src/main/core/ipcHandlers.ts)     *)
(*   - the preload bridge           (src/src/preload/index.ts)             *)
(*   - the settings store           (src/src/main/core/appData.ts)         *)
(*   - the health-check gate        (src/src/main/services/serverCon.ts)   *)
(*   - the startup sequence         (src/src/main/index.ts)                *)
(*   - the tray                     (src/src/main/core/logger.ts, 191-246) *)
(***************************************************************************)
EXTENDS Integers, Sequences, FiniteSets, TLC

(***************************************************************************)
(* Bounds of the model.                                                    *)
(***************************************************************************)
\* how many BrowserWindows one run may construct
MaxWindows == 2

(***************************************************************************)
(* State.                                                                  *)
(***************************************************************************)
VARIABLES
  \* ---- windowManager.ts ----
  UDXWindows,     \* the registry Map, as the sequence of its keys in insertion order
  meta,           \* the UDXWindowMetadata object of every window ever constructed
  browser,        \* the native BrowserWindow of each id: "none", "alive", "destroyed"
  call,           \* where the createWindow call of each id stands
  closeCalled,    \* windows on which window.close() was called and not yet closed
  ret,            \* what the last call returned
  \* ---- index.ts, serverCon.ts ----
  pc,             \* the step initializeMainProcess is at
  server,         \* isUDXServerRunning: "idle", "pending", "true", "false", "throw"
  database,       \* isUDXDatabaseRunning: the same
  initWin,        \* the window whose createWindow call initializeMainProcess awaits
  exit,           \* "running", or how the process ended
  relaunch,       \* which handler called app.relaunch(), "none" if none did
  \* ---- globalState.ts, the environment, the tray ----
  envKey,         \* process.env.VITE_STORAGE_ENCRYPTION_KEY is set
  store,          \* the global store is not null
  authToken,      \* the auth token kept in the store's file
  appDataPath,    \* the global appDataPath is not null
  ipcHandlersRegistered,
  tray,           \* "none", or how 'New UDX Window' was built: "enabled", "disabled"
  \* ---- ipcMain ----
  invokeHandlers, \* channels with an ipcMain.handle handler
  listeners,      \* channels with an ipcMain.on listener
  registerCalls,  \* how many ipcMain.handle / ipcMain.on calls were made per channel
  \* ---- appData.ts ----
  launch,         \* "first" when the settings file was absent at process start
  settingsFile,   \* the settings file on disk
  firstRead,      \* what the first read-settings invocation of the run did
  \* ---- the clear-auth-token handler ----
  clearAuthPc,    \* 0, or the step of ClearAuthTokenSteps the handler is about to run
  atInvoke,       \* the registry and the token when clear-auth-token was invoked
  \* ---- the open-external-link listener ----
  linkArg,        \* the argument of the last open-external-link message
  linkOpened,     \* what that message made the listener pass to shell.openExternal
  \* ---- write-settings invocations under way, read-settings results ----
  writers,        \* where the fs.writeFile of each write-settings invocation stands
  lastWrite,      \* the write-settings invocation that returned true last
  settingsRead,   \* what the last read-settings invocation did
  \* ---- the close-window, minimize-window and maximize-window listeners ----
  lastMsg,        \* the last of these messages: its channel and its sender
  \* ---- protocoles.ts ----
  protocolState,  \* protocolState.isRegistered
  isMacOS,        \* platform.isMacOS
  defaultApp,     \* process.defaultApp: the app runs from the development tree
  appPhase,       \* "starting", "launched" (will-finish-launching was emitted), "ready"
  finishListeners,\* how many 'will-finish-launching' listeners the module added
  directAttempts, \* setAsDefaultProtocolClient calls made by initializeProtocols itself
  eventAttempts,  \* setAsDefaultProtocolClient calls made by those listeners
  initCalls,      \* how many times initializeProtocols was called
  seenRegistered, \* isProtocolRegistered() has returned true
  \* ---- the translation backend of the renderer (i18n.ts) ----
  i18nLanguage,   \* the language of the read under way
  i18nNamespace,  \* its namespace
  i18nFiles,      \* what each candidate file of that language and namespace is
  i18nPc,         \* where the read stands
  i18nContent,    \* what the last window.udx.file.read resolved with
  i18nReads,      \* the files read so far, in order
  i18nCallbacks,  \* the calls of the callback so far, in order
  \* ---- the models directory and the check-model-exists handler ----
  modelsDir,      \* the models directory on disk: whether it exists, the files in it
  modelCheck,     \* the last check-model-exists invocation: its argument, its outcome
  \* ---- the settings panel of the renderer (unnamed/part_002) ----
  panelSettings,  \* the panel's settings state: null, or the document it shows
  panelPc,        \* "idle", or "reading": handleOptionChange awaits readSettings
  panelChange,    \* the last change the user made in the panel and what came of it
  \* ---- the store's other keys, the store and token channels ----
  storeOther,     \* the value the store's file keeps under a key other than the token's
  tokenCall,      \* the last invocation of a store or token channel and its outcome
  \* ---- the initialisation of the translations (i18n.ts, lines 144-228) ----
  isInitialized,
  initializationPromise, \* "null", or the promise's state: "pending", "fulfilled", "rejected"
  initPc,         \* the statement the initialisation under way is at
  primaryRuns,    \* how many times the primary initialisation was started
  callers         \* the calls of ensureI18nInitialized and what became of each

regVars == <<UDXWindows, meta, browser, call, closeCalled>>
wmVars == <<regVars, ret>>

startVars == <<pc, server, database, initWin>>
procVars == <<exit, relaunch>>
globalVars == <<envKey, store, authToken, appDataPath, ipcHandlersRegistered, tray>>
ipcVars == <<invokeHandlers, listeners, registerCalls>>
dataVars == <<launch, settingsFile, firstRead>>
authVars == <<clearAuthPc, atInvoke>>
linkVars == <<linkArg, linkOpened>>
settingsVars == <<writers, lastWrite, settingsRead>>
controlVars == <<lastMsg>>
protoVars == <<protocolState, isMacOS, defaultApp, appPhase, finishListeners,
               directAttempts, eventAttempts, initCalls, seenRegistered>>
i18nVars == <<i18nLanguage, i18nNamespace, i18nFiles, i18nPc, i18nContent, i18nReads,
              i18nCallbacks>>
modelsVars == <<modelsDir, modelCheck>>
panelVars == <<panelSettings, panelPc, panelChange>>
\* the parts added after the ones above, and the variables every part but one
\* leaves alone
storeVars == <<storeOther, tokenCall>>
ensureVars == <<isInitialized, initializationPromise, initPc, primaryRuns, callers>>
laterVars == <<panelVars, storeVars, ensureVars>>
sideVars == <<settingsVars, controlVars, protoVars, i18nVars, modelsVars, laterVars>>
exceptPanel == <<settingsVars, controlVars, protoVars, i18nVars, modelsVars, storeVars,
                 ensureVars>>
exceptStore == <<settingsVars, controlVars, protoVars, i18nVars, modelsVars, panelVars,
                 ensureVars>>
exceptEnsure == <<settingsVars, controlVars, protoVars, i18nVars, modelsVars, panelVars,
                  storeVars>>

mainVars == <<startVars, procVars, globalVars, ipcVars, dataVars, authVars, linkVars,
              sideVars>>

vars == <<wmVars, mainVars>>

(***************************************************************************)
(* Window registry: src/src/main/core/windowManager.ts                     *)
(***************************************************************************)
Win == 1..MaxWindows

\* UDXPossibleWindows = 'main' | 'login'
UDXPossibleWindows == {"main", "login"}

\* The type every createWindow call of the program passes
\* (src/src/main/index.ts:72 and :141, src/src/main/core/logger.ts:218).
CreatedTypes == {"main"}

\* No window / undefined.
NoWindow == 0

\* An identifier handed to a lookup is a string: a generated window id, a
\* window type, or any other string.  Generated ids ("udx-window-...") and
\* type names are disjoint sets of strings, which the kind field records.
IdOf(w) == [kind |-> "id", n |-> w, t |-> ""]
TypeOf(t) == [kind |-> "type", n |-> 0, t |-> t]
OtherString == [kind |-> "other", n |-> 0, t |-> "nowhere"]
Identifiers == {IdOf(w) : w \in Win} \cup {TypeOf(t) : t \in UDXPossibleWindows}
                 \cup {OtherString}

\* What the last call of a mutator handed back: "true" or "false"; "none" when
\* the last step was not such a call.  (What a createWindow call handed back is
\* in call: "returned" with the id, or "rejected".)
NoCall == "none"
Returned(v) == v

\* The metadata object createWindow builds (lines 130-138).
NewMetadata(t) ==
  [type |-> t, isMinimized |-> FALSE, isMaximized |-> FALSE, isFocused |-> FALSE]

\* Map.prototype.has
Has(id) == \E i \in 1..Len(UDXWindows) : UDXWindows[i] = id

\* A faulty delete: it drops the oldest key whatever the key asked for.
MapDeleteOldest(m, id) == IF m = <<>> THEN m ELSE Tail(m)

\* Map.prototype.delete: the other keys keep their order
MapDelete(m, id) == SelectSeq(m, LAMBDA x : x # id)

\* Map.prototype.set of a key: a new key goes last, a present key keeps its place
MapSet(m, id) == IF \E i \in 1..Len(m) : m[i] = id THEN m ELSE Append(m, id)

\* The smallest element of a non-empty set of naturals.
Min(S) == CHOOSE x \in S : \A y \in S : x <= y

\* A faulty lookup: the scan by type keeps the last match instead of the first.
getWindowMetadataLast(identifier) ==
  IF identifier.kind = "id" /\ Has(identifier.n)
  THEN identifier.n
  ELSE LET hits == {i \in 1..Len(UDXWindows) :
                      /\ identifier.kind = "type"
                      /\ meta[UDXWindows[i]].type = identifier.t}
       IN  IF hits = {} THEN NoWindow
           ELSE UDXWindows[CHOOSE x \in hits : \A y \in hits : y <= x]

\* A faulty lookup: when nothing matches it falls back on the oldest entry.
getWindowMetadataOrOldest(identifier) ==
  IF identifier.kind = "id" /\ Has(identifier.n)
  THEN identifier.n
  ELSE LET hits == {i \in 1..Len(UDXWindows) :
                      /\ identifier.kind = "type"
                      /\ meta[UDXWindows[i]].type = identifier.t}
       IN  IF hits # {} THEN UDXWindows[Min(hits)]
           ELSE IF UDXWindows = <<>> THEN NoWindow ELSE UDXWindows[1]

\* getWindowMetadata (lines 197-208): exact id first, else the first entry,
\* in the Map's iteration order, whose type is the identifier.
getWindowMetadata(identifier) ==
  IF identifier.kind = "id" /\ Has(identifier.n)
  THEN identifier.n
  ELSE LET hits == {i \in 1..Len(UDXWindows) :
                      /\ identifier.kind = "type"
                      /\ meta[UDXWindows[i]].type = identifier.t}
       IN  IF hits = {} THEN NoWindow ELSE UDXWindows[Min(hits)]

\* getAllWindows (lines 224-226)
getAllWindows == UDXWindows

\* getWindowsByType (lines 233-235)
getWindowsByType(t) == SelectSeq(UDXWindows, LAMBDA w : meta[w].type = t)

\* generateWindowId (lines 30-32): ids are unique; the model hands them out in
\* the order the createWindow calls begin.
FreshIds == {w \in Win : browser[w] = "none"}
generateWindowId == Min(FreshIds)

\* The registry of a process that has built no window yet (line 24).
NoWindows ==
  /\ UDXWindows = <<>>
  /\ meta = [w \in Win |-> NewMetadata("main")]
  /\ browser = [w \in Win |-> "none"]
  /\ call = [w \in Win |-> "none"]
  /\ closeCalled = {}
  /\ ret = NoCall

\* createWindow, lines 94-150: construct the BrowserWindow, build the metadata,
\* attach the listeners, start loading and suspend at the await.
createWindowConstruct(t) ==
  /\ FreshIds # {}
  /\ LET w == generateWindowId IN
       /\ browser' = [browser EXCEPT ![w] = "alive"]
       /\ meta' = [meta EXCEPT ![w] = NewMetadata(t)]
       /\ call' = [call EXCEPT ![w] = "loading"]
  /\ ret' = NoCall
  /\ UNCHANGED <<UDXWindows, closeCalled>>

\* createWindow, lines 116-124 and 163-167: the BrowserWindow constructor throws;
\* no window was constructed and the call rejects with the wrapped error.
createWindowConstructThrows ==
  /\ FreshIds # {}
  /\ call' = [call EXCEPT ![generateWindowId] = "rejected"]
  /\ ret' = NoCall
  /\ UNCHANGED <<UDXWindows, meta, browser, closeCalled>>

\* createWindow, lines 152-162: the load resolved (which it does only while the
\* window exists); the metadata is registered and the id returned.
createWindowRegister(w) ==
  /\ call[w] = "loading"
  /\ browser[w] = "alive"
  /\ UDXWindows' = MapSet(UDXWindows, w)
  /\ call' = [call EXCEPT ![w] = "returned"]
  /\ ret' = NoCall
  /\ UNCHANGED <<meta, browser, closeCalled>>

\* A faulty createWindow: the metadata is in the registry when the call rejects.
createWindowRejectRegistered(w) ==
  /\ call[w] = "loading"
  /\ browser[w] # "none"
  /\ call' = [call EXCEPT ![w] = "rejected"]
  /\ UDXWindows' = MapSet(UDXWindows, w)
  /\ ret' = NoCall
  /\ UNCHANGED <<meta, browser, closeCalled>>

\* createWindow, lines 163-167: the load rejected (the content failed to load,
\* or the window was destroyed while loading); the call rejects.
\* The metadata object was never registered and never will be: no lookup finds
\* it, so the model keeps only its type and forgets its flags.
createWindowReject(w) ==
  /\ call[w] = "loading"
  /\ browser[w] # "none"
  /\ call' = [call EXCEPT ![w] = "rejected"]
  /\ meta' = [meta EXCEPT ![w] = NewMetadata(meta[w].type)]
  /\ ret' = NoCall
  /\ UNCHANGED <<UDXWindows, browser, closeCalled>>

\* A createWindow call of any caller: its three outcomes.
createWindowBegin(t) == createWindowConstruct(t) /\ UNCHANGED mainVars

createWindowThrows == createWindowConstructThrows /\ UNCHANGED mainVars

createWindowLoaded(w) == createWindowRegister(w) /\ UNCHANGED mainVars

createWindowLoadFailed(w) == createWindowReject(w) /\ UNCHANGED mainVars

(***************************************************************************)
(* setupWindowListeners (lines 38-80): the listeners of one window.  A     *)
(* listener runs when Electron emits the event, which it does for a window *)
(* that exists, registered or not: the listeners are attached before the   *)
(* content loads.                                                          *)
(***************************************************************************)
\* The metadata of w is, or can still become, reachable through the registry.
Tracked(w) == browser[w] = "alive" /\ call[w] \in {"loading", "returned"}

SetFlag(w, f, v) == meta' = [meta EXCEPT ![w][f] = v]

\* window.on('minimize') (lines 42-45)
OnMinimize(w) ==
  /\ Tracked(w)
  /\ ~meta[w].isMinimized
  /\ SetFlag(w, "isMinimized", TRUE)
  /\ ret' = NoCall
  /\ UNCHANGED <<UDXWindows, browser, call, closeCalled, mainVars>>

\* window.on('restore') (lines 47-50)
OnRestore(w) ==
  /\ Tracked(w)
  /\ meta[w].isMinimized
  /\ SetFlag(w, "isMinimized", FALSE)
  /\ ret' = NoCall
  /\ UNCHANGED <<UDXWindows, browser, call, closeCalled, mainVars>>

\* window.on('maximize') (lines 53-56)
OnMaximize(w) ==
  /\ Tracked(w)
  /\ ~meta[w].isMaximized
  /\ SetFlag(w, "isMaximized", TRUE)
  /\ ret' = NoCall
  /\ UNCHANGED <<UDXWindows, browser, call, closeCalled, mainVars>>

\* window.on('unmaximize') (lines 58-61)
OnUnmaximize(w) ==
  /\ Tracked(w)
  /\ meta[w].isMaximized
  /\ SetFlag(w, "isMaximized", FALSE)
  /\ ret' = NoCall
  /\ UNCHANGED <<UDXWindows, browser, call, closeCalled, mainVars>>

\* window.on('focus') (lines 64-67): the window took the OS focus.
OnFocus(w) ==
  /\ Tracked(w)
  /\ ~meta[w].isFocused
  /\ SetFlag(w, "isFocused", TRUE)
  /\ ret' = NoCall
  /\ UNCHANGED <<UDXWindows, browser, call, closeCalled, mainVars>>

\* window.on('closed') (lines 70-73): the native window is gone (the user
\* closed it, or a close() call went through); its id leaves the registry.
\* No event reaches the metadata object any more and no lookup finds it: the
\* model keeps only its type and forgets its flags.
\* A faulty listener: the id stays in the registry.
closedListenerKeepsEntry(w) ==
  /\ browser[w] = "alive"
  /\ browser' = [browser EXCEPT ![w] = "destroyed"]
  /\ closeCalled' = closeCalled \ {w}
  /\ ret' = NoCall
  /\ UNCHANGED <<UDXWindows, meta, call>>

closedListener(w) ==
  /\ browser[w] = "alive"
  /\ browser' = [browser EXCEPT ![w] = "destroyed"]
  /\ UDXWindows' = MapDelete(UDXWindows, w)
  /\ closeCalled' = closeCalled \ {w}
  /\ meta' = [meta EXCEPT ![w] = NewMetadata(meta[w].type)]
  /\ ret' = NoCall
  /\ UNCHANGED call

OnClosed(w) == closedListener(w) /\ UNCHANGED mainVars

(***************************************************************************)
(* The mutators (lines 242-454).  Each looks the identifier up, returns    *)
(* false when nothing matches, and otherwise calls the native window.  A   *)
(* native call on a destroyed window throws, which the catch turns into    *)
(* false.  Electron emits the matching event when the native state changes,*)
(* so the listener's write to the metadata is part of the step.            *)
(***************************************************************************)
\* closeWindow (lines 242-258)
closeWindow(identifier) ==
  LET w == getWindowMetadata(identifier) IN
    IF w = NoWindow \/ browser[w] # "alive"
    THEN /\ ret' = Returned("false")
         /\ UNCHANGED <<UDXWindows, meta, browser, call, closeCalled, mainVars>>
    ELSE /\ closeCalled' = closeCalled \cup {w}
         /\ ret' = Returned("true")
         /\ UNCHANGED <<UDXWindows, meta, browser, call, mainVars>>

\* minimizeWindow (lines 300-316)
minimizeWindow(identifier) ==
  LET w == getWindowMetadata(identifier) IN
    IF w = NoWindow \/ browser[w] # "alive"
    THEN /\ ret' = Returned("false")
         /\ UNCHANGED <<UDXWindows, meta, browser, call, closeCalled, mainVars>>
    ELSE /\ SetFlag(w, "isMinimized", TRUE)
         /\ ret' = Returned("true")
         /\ UNCHANGED <<UDXWindows, browser, call, closeCalled, mainVars>>

\* maximizeWindow (lines 323-343): a toggle on the metadata's isMaximized
maximizeWindow(identifier) ==
  LET w == getWindowMetadata(identifier) IN
    IF w = NoWindow \/ browser[w] # "alive"
    THEN /\ ret' = Returned("false")
         /\ UNCHANGED <<UDXWindows, meta, browser, call, closeCalled, mainVars>>
    ELSE /\ SetFlag(w, "isMaximized", ~meta[w].isMaximized)
         /\ ret' = Returned("true")
         /\ UNCHANGED <<UDXWindows, browser, call, closeCalled, mainVars>>

\* focusWindow (lines 373-392): restore when minimized, then focus
focusWindow(identifier) ==
  LET w == getWindowMetadata(identifier) IN
    IF w = NoWindow \/ browser[w] # "alive"
    THEN /\ ret' = Returned("false")
         /\ UNCHANGED <<UDXWindows, meta, browser, call, closeCalled, mainVars>>
    ELSE /\ meta' = [meta EXCEPT ![w].isMinimized = FALSE, ![w].isFocused = TRUE]
         /\ ret' = Returned("true")
         /\ UNCHANGED <<UDXWindows, browser, call, closeCalled, mainVars>>

\* showWindow (lines 399-415) and hideWindow (lines 438-454): the visibility
\* they change is the native window's, of which the metadata keeps no flag.
showWindow(identifier) ==
  LET w == getWindowMetadata(identifier) IN
    /\ ret' = IF w = NoWindow \/ browser[w] # "alive"
              THEN Returned("false") ELSE Returned("true")
    /\ UNCHANGED <<UDXWindows, meta, browser, call, closeCalled, mainVars>>

hideWindow(identifier) ==
  LET w == getWindowMetadata(identifier) IN
    /\ ret' = IF w = NoWindow \/ browser[w] # "alive"
              THEN Returned("false") ELSE Returned("true")
    /\ UNCHANGED <<UDXWindows, meta, browser, call, closeCalled, mainVars>>

(***************************************************************************)
(* The channels: src/src/main/core/ipcHandlers.ts (lines 366-776) and the  *)
(* preload bridge, src/src/preload/index.ts (lines 17-76).                 *)
(***************************************************************************)
\* The ipcMain.handle and ipcMain.on calls of registerIpcHandlers, in the order
\* of the source (lines 407-760).
RegistrationOrder ==
  << [channel |-> "electron-store-get", kind |-> "handle"],
     [channel |-> "electron-store-set", kind |-> "handle"],
     [channel |-> "electron-store-delete", kind |-> "handle"],
     [channel |-> "electron-store-clear", kind |-> "handle"],
     [channel |-> "set-auth-token", kind |-> "handle"],
     [channel |-> "get-auth-token", kind |-> "handle"],
     [channel |-> "clear-auth-token", kind |-> "handle"],
     [channel |-> "open-external-link", kind |-> "on"],
     [channel |-> "get-app-path", kind |-> "handle"],
     [channel |-> "get-local-models-folder-path", kind |-> "handle"],
     [channel |-> "check-model-exists", kind |-> "handle"],
     [channel |-> "read-file", kind |-> "handle"],
     [channel |-> "read-settings", kind |-> "handle"],
     [channel |-> "write-settings", kind |-> "handle"],
     [channel |-> "create-default-settings", kind |-> "handle"],
     [channel |-> "write-log", kind |-> "handle"],
     [channel |-> "restart-main-process", kind |-> "on"],
     [channel |-> "close-window", kind |-> "on"],
     [channel |-> "minimize-window", kind |-> "on"],
     [channel |-> "maximize-window", kind |-> "on"] >>

Channels == {RegistrationOrder[i].channel : i \in DOMAIN RegistrationOrder}

\* The channels udxAPI names in an ipcRenderer.invoke call (preload, lines 29-69).
BridgeInvoke ==
  {"electron-store-get", "electron-store-set", "electron-store-delete",
   "electron-store-clear", "set-auth-token", "get-auth-token", "clear-auth-token",
   "get-app-path", "get-local-models-folder-path", "check-model-exists",
   "read-file", "read-settings", "write-log"}

\* The channels udxAPI names in an ipcRenderer.send call (preload, lines 24, 74).
BridgeSend == {"open-external-link", "restart-main-process"}

\* ipcMain.handle throws when the channel already has a handler; ipcMain.on adds
\* a listener whatever the channel has.  The first call of the table, counted
\* from 1, that throws when issued on top of the handlers in place; 0 if none.
Throwing ==
  {i \in DOMAIN RegistrationOrder :
     /\ RegistrationOrder[i].kind = "handle"
     /\ \/ RegistrationOrder[i].channel \in invokeHandlers
        \/ \E j \in 1..(i - 1) :
             /\ RegistrationOrder[j].kind = "handle"
             /\ RegistrationOrder[j].channel = RegistrationOrder[i].channel}

FirstThrow == IF Throwing = {} THEN 0 ELSE Min(Throwing)

\* The calls one run of registerIpcHandlers issues when its call number first is
\* the one that throws (0: none throws), and those of them that succeed.
Issued(first) == IF first = 0 THEN DOMAIN RegistrationOrder ELSE 1..first
Succeeded(first) == IF first = 0 THEN DOMAIN RegistrationOrder ELSE 1..(first - 1)

\* A faulty registration: every channel is given to ipcMain.handle.
ChannelsAllHandled(done, kind) ==
  IF kind = "handle" THEN {RegistrationOrder[i].channel : i \in done} ELSE {}

\* The channels the calls of done register with ipcMain.handle (kind "handle")
\* or with ipcMain.on (kind "on").
ChannelsOfKind(done, kind) ==
  {RegistrationOrder[i].channel : i \in {k \in done : RegistrationOrder[k].kind = kind}}

\* How many registration calls the model lets one channel receive.
MaxRegisterCalls == 2

\* Lines 407-763: the registrations and, when none threw, the flag.
Registrations ==
  LET first == FirstThrow
      done == Succeeded(first)
      tried == Issued(first)
  IN  /\ invokeHandlers' = invokeHandlers \cup ChannelsOfKind(done, "handle")
      /\ listeners' = listeners \cup ChannelsOfKind(done, "on")
      /\ registerCalls' =
           [c \in Channels |->
              registerCalls[c] + Cardinality({i \in tried : RegistrationOrder[i].channel = c})]
      /\ ipcHandlersRegistered' = IF first = 0 THEN TRUE ELSE ipcHandlersRegistered

(***************************************************************************)
(* The auth token and the settings documents.                              *)
(***************************************************************************)
\* set-auth-token accepts a string of at least this many characters (line 455).
MinTokenLength == 10

\* What a renderer may pass as the token: a string or not, of some length,
\* made of white space only or not.
TokenArgs ==
  {[str |-> s, len |-> n, blank |-> b] :
     s \in BOOLEAN, n \in {0, MinTokenLength - 1, MinTokenLength}, b \in BOOLEAN}

\* store.get of a key that is not there: undefined.
NoToken == [str |-> FALSE, len |-> 0, blank |-> FALSE]

\* A faulty check: only !token.
InvalidTokenEmptyOnly(token) == token.len = 0

\* Line 455: !token || typeof token !== 'string' || token.length < 10
InvalidToken(token) == token.len = 0 \/ ~token.str \/ token.len < MinTokenLength

\* userIsLoggedIn (utils.ts, lines 20-27)
userIsLoggedIn ==
  IF store
  THEN authToken.str /\ authToken.len > 0 /\ ~authToken.blank
  ELSE FALSE

\* A settings document is a set of <<path, value>> pairs, one for each leaf of
\* the object.  createDefaultSettings (appData.ts, lines 55-69):
createDefaultSettings ==
  { <<"udx.lang", "en">>,
    <<"udx.firstTimeJoinOrg", "true">>,
    <<"udx.firstTimeCreateOrg", "true">>,
    <<"appOption.notification", "true">>,
    <<"appOption.soundFx", "true">>,
    <<"appOption.streamerMode", "true">>,
    <<"appOption.darkMode", "true">> }

\* A document in the shape of the AppSettings type (types/index.ts, lines 13-29),
\* as the settings panel writes it.
TypedSettings ==
  { <<"udxSettings.lang", "fr">>,
    <<"udxSettings.firstTimeJoinOrg", "false">>,
    <<"udxSettings.firstTimeCreateOrg", "true">>,
    <<"appOptions.notifications", "false">>,
    <<"appOptions.soundFx", "true">>,
    <<"appOptions.streamerMode", "true">>,
    <<"appOptions.darkMode", "undefined">> }

\* The documents a renderer passes to write-settings.
SettingsArgs == {createDefaultSettings, TypedSettings}

\* The members JSON.stringify writes, in the order it writes them: the order
\* the object literals of the source give them (appData.ts, lines 56-68; the
\* AppSettings type, types/index.ts, lines 13-29).
MemberOrder ==
  << "udx.lang", "udx.firstTimeJoinOrg", "udx.firstTimeCreateOrg",
     "appOption.notification", "appOption.soundFx", "appOption.streamerMode",
     "appOption.darkMode",
     "udxSettings.lang", "udxSettings.firstTimeJoinOrg",
     "udxSettings.firstTimeCreateOrg",
     "appOptions.notifications", "appOptions.soundFx", "appOptions.streamerMode",
     "appOptions.darkMode" >>

\* The text of a file is a sequence of tokens: an opening brace, one token for
\* each member (its key and the literal of its value), a closing brace.
Brace(b) == [t |-> b, k |-> "", quoted |-> FALSE, lit |-> ""]

\* The literal of a value: true and false bare, a string between quotes.
MemberToken(k, v) ==
  [t |-> "member", k |-> k, quoted |-> v \notin {"true", "false"}, lit |-> v]

ValueOf(doc, k) == (CHOOSE p \in doc : p[1] = k)[2]

\* A faulty writer: the members whose value is false are left out as well.
JsonStringifyTruthy(doc) ==
  LET keys == SelectSeq(MemberOrder,
                LAMBDA k : \E p \in doc : p[1] = k /\ p[2] \notin {"undefined", "false"})
  IN  <<Brace("{")>> \o [i \in 1..Len(keys) |-> MemberToken(keys[i], ValueOf(doc, keys[i]))]
        \o <<Brace("}")>>

\* writeJson: JSON.stringify leaves out the members whose value is undefined.
JsonStringify(doc) ==
  LET keys == SelectSeq(MemberOrder,
                LAMBDA k : \E p \in doc : p[1] = k /\ p[2] # "undefined")
  IN  <<Brace("{")>> \o [i \in 1..Len(keys) |-> MemberToken(keys[i], ValueOf(doc, keys[i]))]
        \o <<Brace("}")>>

\* JSON.parse accepts the text: one object, nothing before it or after it, a
\* bare literal being true or false.
JsonValid(text) ==
  /\ Len(text) >= 2
  /\ text[1] = Brace("{")
  /\ text[Len(text)] = Brace("}")
  /\ \A i \in 2..(Len(text) - 1) :
        /\ text[i].t = "member"
        /\ text[i].quoted \/ text[i].lit \in {"true", "false"}

\* readJson: JSON.parse gives back the members the text holds.
JsonParse(text) == {<<text[i].k, text[i].lit>> : i \in 2..(Len(text) - 1)}

\* The settings file: absent, or holding the text writeJson produced.
NoFile == [exists |-> FALSE, text |-> <<>>]
writeJson(doc) == [exists |-> TRUE, text |-> JsonStringify(doc)]

NotRead == [state |-> "none", doc |-> {}]

(***************************************************************************)
(* write-settings invocations that overlap.  saveAppSettings (appData.ts,  *)
(* line 250) awaits writeJson, which stringifies the document and hands    *)
(* the text to fs.writeFile: the file is opened for writing, which empties *)
(* it, the text is written from the start of the file, the file is closed. *)
(* Nothing in appData.ts or in the handler keeps two invocations apart.    *)
(***************************************************************************)
\* how many write-settings invocations may be under way at once
MaxWriters == 2

Writers == 1..MaxWriters

\* The document the settings panel writes when an option is switched off
\* (unnamed/part_002, lines 142-154): what read-settings gave, with an
\* appOptions member made of the one option.
PanelSettings == createDefaultSettings \cup { <<"appOptions.notifications", "false">> }

\* The documents a renderer passes to write-settings, overlapping or not.
SettingsDocs == SettingsArgs \cup {PanelSettings}

IdleWriter == [pc |-> "idle", doc |-> {}, raced |-> FALSE]
NoWrite == [done |-> FALSE, doc |-> {}, raced |-> FALSE]
NoRead == [state |-> "none", doc |-> {}, inFlight |-> FALSE, after |-> NoWrite]

SettingsIdle ==
  /\ writers = [w \in Writers |-> IdleWriter]
  /\ lastWrite = NoWrite
  /\ settingsRead = NoRead

\* No window-control message was sent yet.  The seq member changes with every
\* message, so that two messages in a row are two values.
NoMsg == [channel |-> "none", sender |-> NoWindow, seq |-> 0]

\* protoVars when protocoles.ts has been loaded and nothing of it called
\* (lines 25-28), on the platform mac (TRUE or FALSE) and in the mode dev.
ProtocolFresh(mac, dev) ==
  /\ protocolState = [isRegistered |-> FALSE]
  /\ isMacOS = mac
  /\ defaultApp = dev
  /\ appPhase = "starting"
  /\ finishListeners = 0
  /\ directAttempts = 0
  /\ eventAttempts = 0
  /\ initCalls = 0
  /\ seenRegistered = FALSE

\* The file names the model gives to 3D models.
ModelNames == {"ship.glb", "station.glb", "drone.glb"}

NoCheck == [arg |-> [kind |-> "none", name |-> ""], result |-> "none"]

\* The models directory as initializeAppData leaves it (appData.ts, lines
\* 175-176), empty; no check-model-exists invocation yet.
ModelsIdle ==
  /\ modelsDir = [exists |-> TRUE, files |-> {}]
  /\ modelCheck = NoCheck

\* The three trees a translation file can be in (i18n.ts, lines 38-41).
Trees == {"common", "components", "apps"}

\* No read of the translation backend is under way.
I18nIdle ==
  /\ i18nLanguage = "en"
  /\ i18nNamespace = "common"
  /\ i18nFiles = [t \in Trees |-> "missing"]
  /\ i18nPc = "idle"
  /\ i18nContent = "none"
  /\ i18nReads = <<>>
  /\ i18nCallbacks = <<>>

\* The settings panel before it was opened: its settings state is null
\* (useState(null)), the user changed nothing.
NoChange == [kind |-> "none", path |-> "", value |-> "", loaded |-> FALSE,
             done |-> FALSE, sent |-> FALSE, shown |-> FALSE, prior |-> {}]
NoSettings == [loaded |-> FALSE, doc |-> {}]

PanelIdle ==
  /\ panelSettings = NoSettings
  /\ panelPc = "idle"
  /\ panelChange = NoChange

\* No store or token channel was invoked yet; the store has the token's key
\* only, if any.
NoTokenCall ==
  [channel |-> "none", key |-> "", arg |-> NoToken, returns |-> "none",
   value |-> NoToken, before |-> NoToken,
   prev |-> [channel |-> "none", arg |-> NoToken, before |-> NoToken]]

StoreIdle ==
  /\ storeOther = NoToken
  /\ tokenCall = NoTokenCall

\* how many calls of ensureI18nInitialized one renderer makes
MaxCallers == 3

Callers == 1..MaxCallers

NotCalled == [state |-> "none", found |-> "", sawInitialized |-> FALSE]

\* i18n.ts evaluated down to line 145: nothing initialised, no promise, no
\* call made.
EnsureIdle ==
  /\ isInitialized = FALSE
  /\ initializationPromise = "null"
  /\ initPc = "none"
  /\ primaryRuns = 0
  /\ callers = [c \in Callers |-> NotCalled]

\* The idle state of the parts in laterVars.
LaterIdle == PanelIdle /\ StoreIdle /\ EnsureIdle

\* The state of the parts that the main sequence leaves alone.
SideInit ==
  /\ SettingsIdle /\ lastMsg = NoMsg /\ ProtocolFresh(FALSE, FALSE) /\ I18nIdle
  /\ ModelsIdle /\ LaterIdle

(***************************************************************************)
(* The startup sequence: src/src/main/index.ts, lines 31-91.               *)
(***************************************************************************)
\* The awaited calls of initializeMainProcess, in order; pc names the one the
\* function has reached and not finished, "done" after the last.
StartupSteps ==
  << "loadEncryptedEnvx", "performHealthChecks", "initializeAppData",
     "initializeProtocols", "registerIpcHandlers", "createWindow", "createTray",
     "setDiscordActivity", "done" >>

StepIndex(s) == CHOOSE i \in DOMAIN StartupSteps : StartupSteps[i] = s
StepAfter(s) == StartupSteps[StepIndex(s) + 1]

\* The steps that come after performHealthChecks.
AfterHealthChecks ==
  {StartupSteps[i] : i \in {k \in DOMAIN StartupSteps : k > StepIndex("performHealthChecks")}}

\* The main process runs and no handler is in the middle of its body.
Idle == exit = "running" /\ clearAuthPc = 0

\* The state of the process when Electron emits 'ready' (index.ts, lines 149-155;
\* globalState.ts, lines 20-26).  The store's file and the settings file are
\* what earlier runs left on disk.
Init ==
  /\ NoWindows
  /\ pc = "loadEncryptedEnvx"
  /\ server = "idle"
  /\ database = "idle"
  /\ initWin = NoWindow
  /\ exit = "running"
  /\ relaunch = "none"
  /\ envKey \in BOOLEAN
  /\ store = FALSE
  /\ authToken \in {NoToken, [str |-> TRUE, len |-> MinTokenLength, blank |-> FALSE]}
  /\ appDataPath = FALSE
  /\ ipcHandlersRegistered = FALSE
  /\ tray = "none"
  /\ invokeHandlers = {}
  /\ listeners = {}
  /\ registerCalls = [c \in Channels |-> 0]
  /\ launch \in {"first", "later"}
  /\ settingsFile = IF launch = "first" THEN NoFile ELSE writeJson(TypedSettings)
  /\ firstRead = NotRead
  /\ clearAuthPc = 0
  /\ atInvoke = [windows |-> {}, token |-> FALSE]
  /\ linkArg = [kind |-> "none", protocol |-> "", href |-> <<>>]
  /\ linkOpened = [called |-> FALSE, href |-> <<>>]
  /\ SideInit

\* The process ends (process.exit, app.exit, app.quit): its memory is gone.
\* What stays is what is on disk and in the environment, and, for the record,
\* how far the startup sequence went and which handler, if any, relaunched.
ProcessEnds(code, by) ==
  /\ exit' = code
  /\ relaunch' = by
  /\ UDXWindows' = <<>>
  /\ meta' = [w \in Win |-> NewMetadata("main")]
  /\ browser' = [w \in Win |-> "none"]
  /\ call' = [w \in Win |-> "none"]
  /\ closeCalled' = {}
  /\ ret' = NoCall
  /\ initWin' = NoWindow
  /\ store' = FALSE
  /\ appDataPath' = FALSE
  /\ ipcHandlersRegistered' = FALSE
  /\ tray' = "none"
  /\ invokeHandlers' = {}
  /\ listeners' = {}
  /\ registerCalls' = [c \in Channels |-> 0]
  /\ firstRead' = NotRead
  /\ clearAuthPc' = 0
  /\ atInvoke' = [windows |-> {}, token |-> FALSE]
  /\ UNCHANGED <<pc, server, database, envKey, authToken, launch, settingsFile, linkVars, sideVars>>

\* A step of initializeMainProcess threw: the catch of lines 87-90.
StartupFails == ProcessEnds("exit1", relaunch)

\* A step of initializeMainProcess that touches nothing but pc returned.
StepReturns ==
  /\ pc' = StepAfter(pc)
  /\ ret' = NoCall
  /\ UNCHANGED <<server, database, initWin, regVars, procVars, globalVars, ipcVars,
                 dataVars, authVars, linkVars, sideVars>>

\* line 39: loadEncryptedEnvx resolves, or rejects
LoadEncryptedEnvx(ok) ==
  /\ Idle
  /\ pc = "loadEncryptedEnvx"
  /\ IF ok THEN StepReturns ELSE StartupFails

\* serverCon.ts, lines 71-74: both checks are called, then Promise.all is awaited
StartHealthChecks ==
  /\ Idle
  /\ pc = "performHealthChecks"
  /\ server = "idle"
  /\ server' = "pending"
  /\ database' = "pending"
  /\ ret' = NoCall
  /\ UNCHANGED <<pc, initWin, regVars, procVars, globalVars, ipcVars, dataVars,
                 authVars, linkVars, sideVars>>

\* What a check settles to: it returns true or false, or it throws.
CheckOutcomes == {"true", "false", "throw"}

\* isUDXServerRunning settles (serverCon.ts, lines 27-42)
ServerSettles(r) ==
  /\ Idle
  /\ server = "pending"
  /\ server' = r
  /\ ret' = NoCall
  /\ UNCHANGED <<pc, database, initWin, regVars, procVars, globalVars, ipcVars,
                 dataVars, authVars, linkVars, sideVars>>

\* isUDXDatabaseRunning settles (serverCon.ts, lines 44-59)
DatabaseSettles(r) ==
  /\ Idle
  /\ database = "pending"
  /\ database' = r
  /\ ret' = NoCall
  /\ UNCHANGED <<pc, server, initWin, regVars, procVars, globalVars, ipcVars,
                 dataVars, authVars, linkVars, sideVars>>

\* Promise.all settles: it rejects as soon as one promise rejects and resolves
\* when all have resolved.
PromiseAllSettled(a, b) ==
  \/ a = "throw"
  \/ b = "throw"
  \/ (a \in {"true", "false"} /\ b \in {"true", "false"})

\* A faulty gate: one check that passed is enough.
healthChecksPassedEither(serverIsAlive, dbIsAlive) ==
  serverIsAlive = "true" \/ dbIsAlive = "true"

\* serverCon.ts, lines 76-98: no failure was pushed and nothing was thrown
healthChecksPassed(serverIsAlive, dbIsAlive) ==
  serverIsAlive = "true" /\ dbIsAlive = "true"

\* performHealthChecks after the await (serverCon.ts, lines 76-104): it returns,
\* or its catch ends the process.
PerformHealthChecks ==
  /\ Idle
  /\ pc = "performHealthChecks"
  /\ PromiseAllSettled(server, database)
  /\ IF healthChecksPassed(server, database)
     THEN StepReturns
     ELSE ProcessEnds("exit1", relaunch)

\* A faulty creation: the test of existence is inverted.
createSettingsFileIfExists(file) ==
  IF file.exists THEN writeJson(createDefaultSettings) ELSE file

\* createSettingsFileIfNotExists (appData.ts, lines 100-115)
createSettingsFileIfNotExists(file) ==
  IF ~file.exists THEN writeJson(createDefaultSettings) ELSE file

\* initializeAppData (appData.ts, lines 144-184): the path is set first; then
\* the directories and files are ensured, which the file system may refuse.
InitializeAppData(ok) ==
  /\ Idle
  /\ pc = "initializeAppData"
  /\ IF ok
     THEN /\ appDataPath' = TRUE
          /\ settingsFile' = createSettingsFileIfNotExists(settingsFile)
          /\ pc' = StepAfter(pc)
          /\ ret' = NoCall
          /\ UNCHANGED <<server, database, initWin, regVars, procVars, envKey, store,
                         authToken, ipcHandlersRegistered, tray, ipcVars, launch,
                         firstRead, authVars, linkVars, sideVars>>
     ELSE StartupFails

\* initializeProtocols (protocoles.ts, lines 113-141): it throws when the
\* system refuses the registration.
InitializeProtocols(ok) ==
  /\ Idle
  /\ pc = "initializeProtocols"
  /\ IF ok THEN StepReturns ELSE StartupFails

\* A faulty store initialisation: a missing key does not stop it.
storeInitNeverFails == FALSE

\* Lines 370-397: the store is built when the global is null; without the
\* encryption key that throws.
storeInitFails == ~store /\ ~envKey

\* registerIpcHandlers (ipcHandlers.ts, lines 366-776) called by line 67 of
\* index.ts: the store is built when the global is null, which needs the
\* encryption key; then the channels are registered and the flag set.
RegisterIpcHandlers ==
  /\ Idle
  /\ pc = "registerIpcHandlers"
  /\ IF storeInitFails \/ FirstThrow # 0
     THEN StartupFails
     ELSE /\ store' = TRUE
          /\ Registrations
          /\ pc' = StepAfter(pc)
          /\ ret' = NoCall
          /\ UNCHANGED <<server, database, initWin, regVars, procVars, envKey,
                         authToken, appDataPath, tray, dataVars, authVars, linkVars, sideVars>>

\* index.ts, line 72: initializeMainProcess calls createWindow and awaits it
InitCreateWindow ==
  /\ Idle
  /\ pc = "createWindow"
  /\ initWin = NoWindow
  /\ createWindowConstruct("main")
  /\ initWin' = generateWindowId
  /\ UNCHANGED <<pc, server, database, procVars, globalVars, ipcVars, dataVars,
                 authVars, linkVars, sideVars>>

\* index.ts, line 72: the BrowserWindow constructor throws, the call rejects
\* and the catch of lines 87-90 ends the process
InitCreateWindowThrows ==
  /\ Idle
  /\ pc = "createWindow"
  /\ initWin = NoWindow
  /\ StartupFails

\* The load of window w resolved: createWindow registers it and returns its id.
\* When the call was the one initializeMainProcess awaits, startup goes on.
WindowLoaded(w) ==
  /\ Idle
  /\ createWindowRegister(w)
  /\ pc' = IF w = initWin /\ pc = "createWindow" THEN StepAfter(pc) ELSE pc
  /\ UNCHANGED <<server, database, initWin, procVars, globalVars, ipcVars, dataVars,
                 authVars, linkVars, sideVars>>

\* The load of window w rejected: createWindow rejects.  When the call was the
\* one initializeMainProcess awaits, the catch of lines 87-90 ends the process;
\* the rejection of a call nobody awaits is dropped.
WindowLoadFailed(w) ==
  /\ Idle
  /\ IF w = initWin /\ pc = "createWindow"
     THEN /\ call[w] = "loading"
          /\ StartupFails
     ELSE /\ createWindowReject(w)
          /\ UNCHANGED mainVars

\* The native windows that exist.
Alive == {w \in Win : browser[w] = "alive"}

\* The 'closed' listener of window w runs; when w was the last native window
\* Electron emits 'window-all-closed', whose handler (index.ts, lines 97-103)
\* quits the application when the registry is empty.
\* Window w is the last native window, so that its end makes Electron emit
\* 'window-all-closed', and the registry is empty once the 'closed' listener
\* of w has run (index.ts, line 99).
windowAllClosed(w) == Alive = {w} /\ Len(MapDelete(UDXWindows, w)) = 0

WindowClosed(w) ==
  /\ Idle
  /\ IF windowAllClosed(w)
     THEN ProcessEnds("quit", relaunch)
     ELSE /\ closedListener(w)
          /\ UNCHANGED mainVars

\* app.on('second-instance') (index.ts, lines 139-143); Electron emits the event
\* at any time after 'ready'.  The createWindow call is not awaited.
SecondInstance ==
  /\ Idle
  /\ Len(getAllWindows) = 0
  /\ createWindowConstruct("main")
  /\ UNCHANGED mainVars

\* createTray (logger.ts, lines 191-246), called by line 78 of index.ts: the
\* menu item is built with the login state of this moment.
CreateTray(ok) ==
  /\ Idle
  /\ pc = "createTray"
  /\ IF ok
     THEN /\ tray' = IF userIsLoggedIn THEN "enabled" ELSE "disabled"
          /\ pc' = StepAfter(pc)
          /\ ret' = NoCall
          /\ UNCHANGED <<server, database, initWin, regVars, procVars, envKey, store,
                         authToken, appDataPath, ipcHandlersRegistered, ipcVars,
                         dataVars, authVars, linkVars, sideVars>>
     ELSE StartupFails

\* globalState.ts, line 25: isQuitting is false and nothing sets it.
getIsQuitting == FALSE

\* The click handler of 'New UDX Window' (logger.ts, lines 213-219); a disabled
\* item cannot be clicked.
TrayNewWindow ==
  /\ Idle
  /\ tray = "enabled"
  /\ ~getIsQuitting
  /\ createWindowConstruct("main")
  /\ UNCHANGED mainVars

\* setDiscordActivity (discord.ts, lines 27-51) catches what it throws.
SetDiscordActivity ==
  /\ Idle
  /\ pc = "setDiscordActivity"
  /\ StepReturns

(***************************************************************************)
(* The handlers a renderer reaches.  A renderer runs from the moment its   *)
(* window loads its content until the window is destroyed; an invoke or a  *)
(* send reaches a handler only once it is registered.  The handlers below  *)
(* do not look at which renderer sent the message.                         *)
(***************************************************************************)
CanInvoke(channel) ==
  /\ Idle
  /\ Alive # {}
  /\ channel \in invokeHandlers

CanSend(channel) ==
  /\ Idle
  /\ Alive # {}
  /\ channel \in listeners

\* 'set-auth-token' (ipcHandlers.ts, lines 453-466): an invalid token throws
\* inside the try and nothing is stored.
SetAuthToken(token) ==
  /\ CanInvoke("set-auth-token")
  /\ authToken' = IF InvalidToken(token) THEN authToken ELSE token
  /\ ret' = NoCall
  /\ UNCHANGED <<regVars, startVars, procVars, envKey, store, appDataPath,
                 ipcHandlersRegistered, tray, ipcVars, dataVars, authVars, linkVars, sideVars>>

\* loadAppSettings (appData.ts, lines 221-235): the path must be set, the file
\* must be there and readable.
loadAppSettings(ok) ==
  IF appDataPath /\ settingsFile.exists /\ ok /\ JsonValid(settingsFile.text)
  THEN [state |-> "returned", doc |-> JsonParse(settingsFile.text)]
  ELSE [state |-> "rejected", doc |-> {}]

\* 'read-settings' (ipcHandlers.ts, lines 598-602): what readSettings gives, or
\* its rejection.  The model keeps what the first invocation of the run did.
ReadSettings(ok) ==
  /\ CanInvoke("read-settings")
  /\ firstRead' = IF firstRead.state = "none" THEN loadAppSettings(ok) ELSE firstRead
  /\ ret' = NoCall
  /\ UNCHANGED <<regVars, startVars, procVars, globalVars, ipcVars, launch,
                 settingsFile, authVars, linkVars, sideVars>>

\* saveAppSettings (appData.ts, lines 243-256)
saveAppSettings(settings, ok) ==
  IF appDataPath /\ ok THEN writeJson(settings) ELSE settingsFile

\* 'write-settings' (ipcHandlers.ts, lines 609-619).  A write that comes before
\* the first read-settings is remembered: the first read then is not the read
\* of an untouched file.
WriteSettings(settings, ok) ==
  /\ CanInvoke("write-settings")
  /\ settingsFile' = saveAppSettings(settings, ok)
  /\ firstRead' = IF firstRead.state = "none"
                  THEN [state |-> "written", doc |-> {}] ELSE firstRead
  /\ ret' = NoCall
  /\ UNCHANGED <<regVars, startVars, procVars, globalVars, ipcVars, launch,
                 authVars, linkVars, sideVars>>

\* 'restart-main-process' (ipcHandlers.ts, lines 662-666)
RestartMainProcess ==
  /\ CanSend("restart-main-process")
  /\ ProcessEnds("exit0", "restart-main-process")

(***************************************************************************)
(* 'clear-auth-token' (ipcHandlers.ts, lines 489-503).  The handler body   *)
(* runs to completion: nothing else runs between two of its statements.    *)
(***************************************************************************)
\* A faulty order: the relaunch comes before the windows are told to close.
ClearAuthTokenStepsRelaunchFirst ==
  << "store.delete", "app.relaunch", "closeAllWindows", "resetGlobalState", "app.exit" >>

\* The statements of the try block, in order (lines 492-496).
ClearAuthTokenSteps ==
  << "store.delete", "closeAllWindows", "resetGlobalState", "app.relaunch", "app.exit" >>

\* The statements the running handler has executed.
HandlerDid(s) == \E i \in 1..(clearAuthPc - 1) : ClearAuthTokenSteps[i] = s

\* closeAllWindows (windowManager.ts, lines 282-293): closeWindow on every key;
\* the windows whose close() was called.
closeAllWindows == {UDXWindows[i] : i \in {k \in 1..Len(UDXWindows) : browser[UDXWindows[k]] = "alive"}}

\* The handler is invoked (line 489).
ClearAuthToken ==
  /\ CanInvoke("clear-auth-token")
  /\ clearAuthPc' = 1
  /\ atInvoke' = [windows |-> {UDXWindows[i] : i \in 1..Len(UDXWindows)},
                  token |-> authToken # NoToken]
  /\ ret' = NoCall
  /\ UNCHANGED <<UDXWindows, meta, browser, call, closeCalled, startVars, procVars,
                 globalVars, ipcVars, dataVars, linkVars, sideVars>>

\* The next statement of the try block runs.
ClearAuthTokenStep ==
  /\ exit = "running"
  /\ clearAuthPc \in DOMAIN ClearAuthTokenSteps
  /\ LET s == ClearAuthTokenSteps[clearAuthPc] IN
       IF s = "app.exit"
       THEN ProcessEnds("exit0", relaunch)
       ELSE /\ clearAuthPc' = clearAuthPc + 1
            /\ authToken' = IF s = "store.delete" THEN NoToken ELSE authToken
            /\ closeCalled' = IF s = "closeAllWindows"
                              THEN closeCalled \cup closeAllWindows ELSE closeCalled
            /\ store' = IF s = "resetGlobalState" THEN FALSE ELSE store
            /\ appDataPath' = IF s = "resetGlobalState" THEN FALSE ELSE appDataPath
            /\ ipcHandlersRegistered' =
                 IF s = "resetGlobalState" THEN FALSE ELSE ipcHandlersRegistered
            /\ relaunch' = IF s = "app.relaunch" THEN "clear-auth-token" ELSE relaunch
            /\ ret' = NoCall
            /\ UNCHANGED <<UDXWindows, meta, browser, call, startVars, exit, envKey,
                           tray, ipcVars, dataVars, atInvoke, linkVars, sideVars>>

\* store.delete throws (the store's file cannot be written): the catch of
\* lines 498-502 returns false and the rest of the try block is skipped.
ClearAuthTokenThrows ==
  /\ exit = "running"
  /\ clearAuthPc \in DOMAIN ClearAuthTokenSteps
  /\ ClearAuthTokenSteps[clearAuthPc] = "store.delete"
  /\ clearAuthPc' = 0
  /\ ret' = NoCall
  /\ UNCHANGED <<UDXWindows, meta, browser, call, closeCalled, startVars, procVars,
                 globalVars, ipcVars, dataVars, atInvoke, linkVars, sideVars>>

(***************************************************************************)
(* The main process from 'ready' on.                                       *)
(***************************************************************************)
\* The steps of a run in which the tray's menu is not used.
NextNoTray ==
  \/ \E ok \in BOOLEAN : LoadEncryptedEnvx(ok)
  \/ StartHealthChecks
  \/ \E r \in CheckOutcomes : ServerSettles(r)
  \/ \E r \in CheckOutcomes : DatabaseSettles(r)
  \/ PerformHealthChecks
  \/ \E ok \in BOOLEAN : InitializeAppData(ok)
  \/ \E ok \in BOOLEAN : InitializeProtocols(ok)
  \/ RegisterIpcHandlers
  \/ InitCreateWindow
  \/ InitCreateWindowThrows
  \/ \E w \in Win : WindowLoaded(w)
  \/ \E w \in Win : WindowLoadFailed(w)
  \/ \E w \in Win : WindowClosed(w)
  \/ SecondInstance
  \/ \E ok \in BOOLEAN : CreateTray(ok)
  \/ SetDiscordActivity
  \/ \E token \in TokenArgs : SetAuthToken(token)
  \/ \E ok \in BOOLEAN : ReadSettings(ok)
  \/ \E settings \in SettingsArgs, ok \in BOOLEAN : WriteSettings(settings, ok)
  \/ RestartMainProcess
  \/ ClearAuthToken
  \/ ClearAuthTokenStep
  \/ ClearAuthTokenThrows

Next == NextNoTray \/ TrayNewWindow

Spec == Init /\ [][Next]_vars

SpecNoTray == Init /\ [][NextNoTray]_vars

(***************************************************************************)
(* registerIpcHandlers called again by any caller of the module, after the *)
(* call of the startup sequence (ipcHandlers.ts, lines 366-776).           *)
(***************************************************************************)
RegisterIpcHandlersAgain ==
  /\ Idle
  /\ ipcHandlersRegistered
  /\ \A c \in Channels : registerCalls[c] < MaxRegisterCalls
  /\ store' = TRUE
  /\ Registrations
  /\ ret' = NoCall
  /\ UNCHANGED <<UDXWindows, meta, browser, call, closeCalled, startVars, procVars,
                 envKey, authToken, appDataPath, tray, dataVars, authVars, linkVars, sideVars>>

NextReentry == Next \/ RegisterIpcHandlersAgain

SpecReentry == Init /\ [][NextReentry]_vars

(***************************************************************************)
(* A started process: what initializeMainProcess leaves when every step    *)
(* succeeded, before any window exists.                                    *)
(***************************************************************************)
StartedWith(file) ==
  /\ pc = "done"
  /\ server = "true"
  /\ database = "true"
  /\ initWin = NoWindow
  /\ exit = "running"
  /\ relaunch = "none"
  /\ envKey = TRUE
  /\ store = TRUE
  /\ authToken = NoToken
  /\ appDataPath = TRUE
  /\ ipcHandlersRegistered = TRUE
  /\ tray = "disabled"
  /\ invokeHandlers = ChannelsOfKind(DOMAIN RegistrationOrder, "handle")
  /\ listeners = ChannelsOfKind(DOMAIN RegistrationOrder, "on")
  /\ registerCalls = [c \in Channels |-> 1]
  /\ launch = "later"
  /\ settingsFile = file
  /\ firstRead = NotRead
  /\ clearAuthPc = 0
  /\ atInvoke = [windows |-> {}, token |-> FALSE]
  /\ linkArg = [kind |-> "none", protocol |-> "", href |-> <<>>]
  /\ linkOpened = [called |-> FALSE, href |-> <<>>]

\* The settings file of a started process that nothing has written since
\* initializeAppData made it.
StartedMain == StartedWith(writeJson(createDefaultSettings))

Started == StartedMain /\ SideInit

(***************************************************************************)
(* The window registry on its own: any caller, any identifier.             *)
(***************************************************************************)
InitWM == NoWindows /\ Started

NextWM ==
  \/ \E t \in CreatedTypes : createWindowBegin(t)
  \/ createWindowThrows
  \/ \E w \in Win : createWindowLoaded(w)
  \/ \E w \in Win : createWindowLoadFailed(w)
  \/ \E w \in Win : OnMinimize(w)
  \/ \E w \in Win : OnRestore(w)
  \/ \E w \in Win : OnMaximize(w)
  \/ \E w \in Win : OnUnmaximize(w)
  \/ \E w \in Win : OnFocus(w)
  \/ \E w \in Win : OnClosed(w)
  \/ \E i \in Identifiers : closeWindow(i)
  \/ \E i \in Identifiers : minimizeWindow(i)
  \/ \E i \in Identifiers : maximizeWindow(i)
  \/ \E i \in Identifiers : focusWindow(i)
  \/ \E i \in Identifiers : showWindow(i)
  \/ \E i \in Identifiers : hideWindow(i)

SpecWM == InitWM /\ [][NextWM]_vars

(***************************************************************************)
(* 'open-external-link' (ipcHandlers.ts, lines 511-529).  A character is   *)
(* its code point; an href is a sequence of characters.                    *)
(***************************************************************************)
\* The longest href the model sends.
MaxHrefLen == 2

\* Code points on both sides of the edges of U+0000-U+001F and U+007F-U+009F.
CodePoints == {0, 31, 32, 126, 127, 159, 160}

Hrefs == UNION {[1..n -> CodePoints] : n \in 0..MaxHrefLen}

\* The protocol member of the argument: 'https:' and near misses.
Protocols == {"https:", "http:", "https"}

\* What a renderer may send: null, a string, or an object with a protocol and
\* an href.
LinkArgs ==
  {[kind |-> "object", protocol |-> p, href |-> h] : p \in Protocols, h \in Hrefs}
    \cup {[kind |-> k, protocol |-> "", href |-> <<>>] : k \in {"null", "string"}}

\* A faulty pattern: the second range stops one short, at U+009E.
unsafePatternShort(c) == (0 <= c /\ c <= 31) \/ (127 <= c /\ c <= 158)

\* /[\u0000-\u001F\u007F-\u009F]/ matches the character c (line 516)
unsafePattern(c) == (0 <= c /\ c <= 31) \/ (127 <= c /\ c <= 159)

\* unsafePattern.test(url.href) (line 517)
unsafePatternTest(href) == \E i \in 1..Len(href) : unsafePattern(href[i])

\* The listener (lines 511-529).  A null argument makes line 512 throw before
\* the try; a string has no protocol; both end without a shell.openExternal.
OpenExternalLink(url) ==
  /\ CanSend("open-external-link")
  /\ linkArg' = url
  /\ linkOpened' =
       IF url.kind = "object" /\ url.protocol = "https:" /\ ~unsafePatternTest(url.href)
       THEN [called |-> TRUE, href |-> url.href]
       ELSE [called |-> FALSE, href |-> <<>>]
  /\ ret' = NoCall
  /\ UNCHANGED <<regVars, startVars, procVars, globalVars, ipcVars, dataVars, authVars,
                 sideVars>>

\* A started process with one window, whose renderer sends the messages.
InitLink ==
  /\ Started
  /\ UDXWindows = <<1>>
  /\ meta = [w \in Win |-> NewMetadata("main")]
  /\ browser = [w \in Win |-> IF w = 1 THEN "alive" ELSE "none"]
  /\ call = [w \in Win |-> IF w = 1 THEN "returned" ELSE "none"]
  /\ closeCalled = {}
  /\ ret = NoCall

NextLink == \E url \in LinkArgs : OpenExternalLink(url)

SpecLink == InitLink /\ [][NextLink]_vars

(***************************************************************************)
(* 'write-settings' and 'read-settings' with the writes taken step by step *)
(* (ipcHandlers.ts, lines 598-619; appData.ts, lines 221-288).             *)
(***************************************************************************)
\* fs.writeFile writes text from the start of a file that holds old: what was
\* beyond the end of text stays.
Overlay(text, old) ==
  [i \in 1..(IF Len(text) >= Len(old) THEN Len(text) ELSE Len(old)) |->
     IF i <= Len(text) THEN text[i] ELSE old[i]]

InFlight == {w \in Writers : writers[w].pc # "idle"}

\* write-settings is invoked (line 609) and saveAppSettings opens the file;
\* when that fails the handler returns false (lines 613-617) and nothing changed.
WriteSettingsOpen(w, settings, ok) ==
  /\ CanInvoke("write-settings")
  /\ writers[w].pc = "idle"
  /\ IF appDataPath /\ ok
     THEN /\ writers' =
               [v \in Writers |->
                  IF v = w
                  THEN [pc |-> "opened", doc |-> settings, raced |-> InFlight # {}]
                  ELSE IF writers[v].pc = "idle" THEN writers[v]
                  ELSE [writers[v] EXCEPT !.raced = TRUE]]
          /\ settingsFile' = [exists |-> TRUE, text |-> <<>>]
     ELSE UNCHANGED <<writers, settingsFile>>
  /\ ret' = NoCall
  /\ UNCHANGED <<regVars, startVars, procVars, globalVars, ipcVars, launch, firstRead,
                 authVars, linkVars, lastWrite, settingsRead, controlVars, protoVars, i18nVars, modelsVars,
                 laterVars>>

\* the text reaches the file
WriteSettingsData(w) ==
  /\ writers[w].pc = "opened"
  /\ writers' = [writers EXCEPT ![w].pc = "written"]
  /\ settingsFile' =
       [exists |-> TRUE, text |-> Overlay(JsonStringify(writers[w].doc), settingsFile.text)]
  /\ ret' = NoCall
  /\ UNCHANGED <<regVars, startVars, procVars, globalVars, ipcVars, launch, firstRead,
                 authVars, linkVars, lastWrite, settingsRead, controlVars, protoVars, i18nVars, modelsVars,
                 laterVars>>

\* the file is closed, writeSettings resolves, the handler returns true (line 613)
WriteSettingsReturns(w) ==
  /\ writers[w].pc = "written"
  /\ writers' = [writers EXCEPT ![w] = IdleWriter]
  /\ lastWrite' = [done |-> TRUE, doc |-> writers[w].doc, raced |-> writers[w].raced]
  /\ ret' = NoCall
  /\ UNCHANGED <<regVars, startVars, procVars, globalVars, ipcVars, dataVars,
                 authVars, linkVars, settingsRead, controlVars, protoVars, i18nVars, modelsVars,
                 laterVars>>

\* 'read-settings' (lines 598-602): the document readSettings gives, or the
\* rejection of readSettings, which nothing in the handler catches.
ReadSettingsNow ==
  /\ CanInvoke("read-settings")
  /\ settingsRead' =
       [state |-> loadAppSettings(TRUE).state, doc |-> loadAppSettings(TRUE).doc,
        inFlight |-> InFlight # {}, after |-> lastWrite]
  /\ ret' = NoCall
  /\ UNCHANGED <<regVars, startVars, procVars, globalVars, ipcVars, dataVars,
                 authVars, linkVars, writers, lastWrite, controlVars, protoVars, i18nVars, modelsVars,
                 laterVars>>

\* A started process with one window, whose renderer invokes the two channels.
InitSettings == InitLink

NextSettings ==
  \/ \E w \in Writers, settings \in SettingsDocs, ok \in BOOLEAN :
       WriteSettingsOpen(w, settings, ok)
  \/ \E w \in Writers : WriteSettingsData(w)
  \/ \E w \in Writers : WriteSettingsReturns(w)
  \/ ReadSettingsNow

SpecSettings == InitSettings /\ [][NextSettings]_vars

(***************************************************************************)
(* 'close-window', 'minimize-window', 'maximize-window' (ipcHandlers.ts,   *)
(* lines 672-760): sent by the frame of a window (unnamed/part_000, lines  *)
(* 30-40), which it can do from the moment its content runs, loaded and    *)
(* registered or not.                                                      *)
(***************************************************************************)
ControlChannels == {"close-window", "minimize-window", "maximize-window"}

\* Lines 676-680: BrowserWindow.fromWebContents(event.sender) is the sender's
\* window; the loop over getAllWindows() finds the metadata whose window it is.
MetadataOf(sender) == IF Has(sender) THEN sender ELSE NoWindow

\* A faulty handler: it hands the window's type to the mutator.
SenderTargetByType(m) == TypeOf(meta[m].type)

\* Line 681 (and 714, 739): the mutator is handed metadata.id
SenderTarget(m) == IdOf(m)

\* The window a mutator acts on when handed identifier: the one the lookup
\* finds, when its native window still exists (windowManager.ts, lines 242-258).
ActedOn(identifier) ==
  LET w == getWindowMetadata(identifier) IN
    IF w = NoWindow \/ browser[w] # "alive" THEN NoWindow ELSE w

\* The window the handler ends up calling: through the mutator when the
\* metadata was found, else the sender's window directly (lines 691-692).
Target(sender) ==
  IF MetadataOf(sender) # NoWindow
  THEN ActedOn(SenderTarget(MetadataOf(sender)))
  ELSE sender

Sent(channel, sender) ==
  /\ CanSend(channel)
  /\ Tracked(sender)
  /\ lastMsg' = [channel |-> channel, sender |-> sender, seq |-> 1 - lastMsg.seq]
  /\ ret' = NoCall

\* 'close-window' (lines 672-704).  close() is called; the 'closed' event and
\* the registry's delete come later, so a registered sender is still counted
\* at lines 683-684.  An unregistered sender with an empty registry: app.quit().
CloseWindowMessage(sender) ==
  /\ Sent("close-window", sender)
  /\ IF MetadataOf(sender) = NoWindow /\ Len(getAllWindows) = 0
     THEN /\ exit' = "quit"
          /\ UDXWindows' = <<>>
          /\ meta' = [w \in Win |-> NewMetadata("main")]
          /\ browser' = [w \in Win |-> "none"]
          /\ call' = [w \in Win |-> "none"]
          /\ closeCalled' = {}
          /\ UNCHANGED relaunch
     ELSE /\ closeCalled' = closeCalled \cup ({Target(sender)} \ {NoWindow})
          /\ UNCHANGED <<UDXWindows, meta, browser, call, procVars>>
  /\ UNCHANGED <<startVars, globalVars, ipcVars, dataVars, authVars, linkVars,
                 settingsVars, protoVars, i18nVars, modelsVars,
                 laterVars>>

\* 'minimize-window' (lines 710-729)
MinimizeWindowMessage(sender) ==
  /\ Sent("minimize-window", sender)
  /\ IF Target(sender) = NoWindow
     THEN UNCHANGED meta
     ELSE SetFlag(Target(sender), "isMinimized", TRUE)
  /\ UNCHANGED <<UDXWindows, browser, call, closeCalled, startVars, procVars,
                 globalVars, ipcVars, dataVars, authVars, linkVars, settingsVars,
                 protoVars, i18nVars, modelsVars,
                 laterVars>>

\* 'maximize-window' (lines 735-760): a toggle either way
MaximizeWindowMessage(sender) ==
  /\ Sent("maximize-window", sender)
  /\ IF Target(sender) = NoWindow
     THEN UNCHANGED meta
     ELSE SetFlag(Target(sender), "isMaximized", ~meta[Target(sender)].isMaximized)
  /\ UNCHANGED <<UDXWindows, browser, call, closeCalled, startVars, procVars,
                 globalVars, ipcVars, dataVars, authVars, linkVars, settingsVars,
                 protoVars, i18nVars, modelsVars,
                 laterVars>>

InitControls == InitWM

NextControls ==
  \/ \E t \in CreatedTypes : exit = "running" /\ createWindowBegin(t)
  \/ \E w \in Win : createWindowLoaded(w)
  \/ \E w \in Win : createWindowLoadFailed(w)
  \/ \E w \in Win : OnRestore(w)
  \/ \E w \in Win : OnClosed(w)
  \/ \E w \in Win : exit = "running" /\ CloseWindowMessage(w)
  \/ \E w \in Win : exit = "running" /\ MinimizeWindowMessage(w)
  \/ \E w \in Win : exit = "running" /\ MaximizeWindowMessage(w)

SpecControls == InitControls /\ [][NextControls]_vars

(***************************************************************************)
(* The close-window message up to the end of the application: the handler  *)
(* calls close(), Electron emits 'closed' on the window afterwards, and    *)
(* 'window-all-closed' on the application when no native window is left    *)
(* (index.ts, lines 97-103).  Windows are created meanwhile, as the tray   *)
(* and 'second-instance' do.                                               *)
(***************************************************************************)
\* The 'closed' event of a window on which close() was called: Electron emits
\* it once the page has unloaded.
ClosedAfterClose(w) == w \in closeCalled /\ WindowClosed(w)

\* A started process that has no window yet.
InitClose == InitWM

NextClose ==
  \/ \E t \in CreatedTypes : exit = "running" /\ createWindowBegin(t)
  \/ \E w \in Win : createWindowLoaded(w)
  \/ \E w \in Win : createWindowLoadFailed(w)
  \/ \E w \in Win : WindowClosed(w)
  \/ \E w \in Win : exit = "running" /\ CloseWindowMessage(w)

\* A window on which close() was called is closed in the end.
FairClose == \A w \in Win : WF_vars(ClosedAfterClose(w))

SpecClose == InitClose /\ [][NextClose]_vars /\ FairClose

(***************************************************************************)
(* The custom protocol (src/src/main/services/protocoles.ts, lines 23-149) *)
(* with the application's lifecycle events, for any caller of the module.  *)
(***************************************************************************)
\* how many times the model calls initializeProtocols
MaxProtocolCalls == 2

\* registerDevelopmentProtocol (lines 34-55) and registerProductionProtocol
\* (lines 61-76) call app.setAsDefaultProtocolClient; the development one only
\* when process.argv has two elements or more.
Attempts(argvOk) == IF defaultApp THEN argvOk ELSE TRUE

\* initializeProtocols (lines 113-141).  It has no await: it runs in one turn.
\* Line 118 resets isRegistered; the registration of lines 121-127 sets it when
\* setAsDefaultProtocolClient succeeds and throws otherwise; on macOS a
\* 'will-finish-launching' listener is added after that (lines 130-133).
InitializeProtocolsCall(argvOk, success) ==
  /\ initCalls < MaxProtocolCalls
  /\ initCalls' = initCalls + 1
  /\ protocolState' = [isRegistered |-> Attempts(argvOk) /\ success]
  /\ directAttempts' = IF Attempts(argvOk) THEN directAttempts + 1 ELSE directAttempts
  /\ finishListeners' =
       IF Attempts(argvOk) /\ success /\ isMacOS
       THEN finishListeners + 1 ELSE finishListeners
  /\ UNCHANGED <<isMacOS, defaultApp, appPhase, eventAttempts, seenRegistered>>
  /\ UNCHANGED <<wmVars, startVars, procVars, globalVars, ipcVars, dataVars, authVars,
                 linkVars, settingsVars, controlVars, i18nVars, modelsVars,
                 laterVars>>

\* Electron emits 'will-finish-launching', once, before 'ready'.  Each listener
\* of lines 84-97 calls setAsDefaultProtocolClient and sets isRegistered when
\* it succeeds; it changes nothing when it fails.
WillFinishLaunching(success) ==
  /\ appPhase = "starting"
  /\ appPhase' = "launched"
  /\ eventAttempts' = eventAttempts + finishListeners
  /\ protocolState' =
       IF finishListeners > 0 /\ success THEN [isRegistered |-> TRUE] ELSE protocolState
  /\ UNCHANGED <<isMacOS, defaultApp, finishListeners, directAttempts, initCalls,
                 seenRegistered>>
  /\ UNCHANGED <<wmVars, startVars, procVars, globalVars, ipcVars, dataVars, authVars,
                 linkVars, settingsVars, controlVars, i18nVars, modelsVars,
                 laterVars>>

\* Electron emits 'ready' (index.ts, lines 149-155, runs from there).
AppReady ==
  /\ appPhase = "launched"
  /\ appPhase' = "ready"
  /\ UNCHANGED <<protocolState, isMacOS, defaultApp, finishListeners, directAttempts,
                 eventAttempts, initCalls, seenRegistered>>
  /\ UNCHANGED <<wmVars, startVars, procVars, globalVars, ipcVars, dataVars, authVars,
                 linkVars, settingsVars, controlVars, i18nVars, modelsVars,
                 laterVars>>

\* isProtocolRegistered (lines 147-149): the model remembers a true.
isProtocolRegistered ==
  /\ seenRegistered' = (seenRegistered \/ protocolState.isRegistered)
  /\ UNCHANGED <<protocolState, isMacOS, defaultApp, appPhase, finishListeners,
                 directAttempts, eventAttempts, initCalls>>
  /\ UNCHANGED <<wmVars, startVars, procVars, globalVars, ipcVars, dataVars, authVars,
                 linkVars, settingsVars, controlVars, i18nVars, modelsVars,
                 laterVars>>

InitProtocol ==
  /\ NoWindows
  /\ pc = "done" /\ server = "true" /\ database = "true" /\ initWin = NoWindow
  /\ exit = "running" /\ relaunch = "none"
  /\ envKey = TRUE /\ store = FALSE /\ authToken = NoToken /\ appDataPath = FALSE
  /\ ipcHandlersRegistered = FALSE /\ tray = "none"
  /\ invokeHandlers = {} /\ listeners = {} /\ registerCalls = [c \in Channels |-> 0]
  /\ launch = "later" /\ settingsFile = writeJson(createDefaultSettings)
  /\ firstRead = NotRead
  /\ clearAuthPc = 0 /\ atInvoke = [windows |-> {}, token |-> FALSE]
  /\ linkArg = [kind |-> "none", protocol |-> "", href |-> <<>>]
  /\ linkOpened = [called |-> FALSE, href |-> <<>>]
  /\ SettingsIdle /\ lastMsg = NoMsg /\ I18nIdle /\ ModelsIdle /\ LaterIdle
  /\ \E mac \in BOOLEAN, dev \in BOOLEAN : ProtocolFresh(mac, dev)

NextProtocol ==
  \/ \E argvOk \in BOOLEAN, success \in BOOLEAN : InitializeProtocolsCall(argvOk, success)
  \/ \E success \in BOOLEAN : WillFinishLaunching(success)
  \/ AppReady
  \/ isProtocolRegistered

SpecProtocol == InitProtocol /\ [][NextProtocol]_vars

(***************************************************************************)
(* The translation backend: electronBackend.read (renderer, i18n.ts, lines *)
(* 33-80), which reads through 'read-file' (ipcHandlers.ts, lines 579-592).*)
(***************************************************************************)
Languages == {"en", "fr"}

\* 'translation' and 'common' are the default namespaces (line 37); the others
\* name a component or an app.
Namespaces == {"translation", "common", "settings", "dashboard"}

\* What a candidate file is: not there; there and not JSON; the JSON text null;
\* a JSON object without a member named as the namespace; one with it.
FileKinds == {"missing", "invalid", "null", "object", "keyed"}

\* 'read-file' (ipcHandlers.ts, lines 579-592): null when readFile fails, the
\* text otherwise.  The model names the text after the file's kind.
ReadFile(tree) == IF i18nFiles[tree] = "missing" THEN "null" ELSE tree

EmptySet == [from |-> "nowhere", part |-> "empty"]

\* A faulty catch: the error goes to the callback.
CatchCallbackWithError == [err |-> "error", data |-> EmptySet]

\* callback(null, {}) of the catch (line 78)
CatchCallback == [err |-> "null", data |-> EmptySet]

\* callback(null, {}) of lines 54 and 67
NotFoundCallback == [err |-> "null", data |-> EmptySet]

\* Lines 71-72: JSON.parse(content), callback(null, translations)
CommonCallback(tree) ==
  CASE i18nFiles[tree] = "invalid" -> CatchCallback
    [] i18nFiles[tree] = "null" -> [err |-> "null", data |-> [from |-> tree, part |-> "null"]]
    [] OTHER -> [err |-> "null", data |-> [from |-> tree, part |-> "whole"]]

\* Lines 59-60: JSON.parse(content), callback(null, translations[namespace] || {}).
\* Reading a member of null throws, which lands in the catch.
NamespaceCallback(tree) ==
  CASE i18nFiles[tree] \in {"invalid", "null"} -> CatchCallback
    [] i18nFiles[tree] = "object" -> [err |-> "null", data |-> [from |-> tree, part |-> "empty"]]
    [] OTHER -> [err |-> "null", data |-> [from |-> tree, part |-> "namespace"]]

\* A faulty order: the apps tree first.
CandidateOrderAppsFirst == <<"apps", "components">>

\* Lines 40-47: the components file, then the apps file
CandidateOrder == <<"components", "apps">>

IsDefaultNamespace == i18nNamespace \in {"translation", "common"}

I18nStep(pcNext, content, reads, callbacks) ==
  /\ i18nPc' = pcNext
  /\ i18nContent' = content
  /\ i18nReads' = reads
  /\ i18nCallbacks' = callbacks
  /\ UNCHANGED <<i18nLanguage, i18nNamespace, i18nFiles>>
  /\ UNCHANGED <<wmVars, startVars, procVars, globalVars, ipcVars, dataVars, authVars,
                 linkVars, settingsVars, controlVars, protoVars, modelsVars,
                 laterVars>>

\* Lines 37-43 and 64: the first read is sent and awaited.
I18nFirstRead ==
  /\ i18nPc = "start"
  /\ LET tree == IF IsDefaultNamespace THEN "common" ELSE CandidateOrder[1] IN
       I18nStep(IF IsDefaultNamespace THEN "common" ELSE "first",
                ReadFile(tree), Append(i18nReads, tree), i18nCallbacks)

\* Lines 65-72: the common file was read.
I18nCommonRead ==
  /\ i18nPc = "common"
  /\ I18nStep("done", i18nContent, i18nReads,
              Append(i18nCallbacks,
                     IF i18nContent = "null" THEN NotFoundCallback
                     ELSE CommonCallback(i18nContent)))

\* Lines 44-47: the first candidate was read; when it is null the second one is
\* read, otherwise lines 59-60 run on it.
I18nFirstCandidateRead ==
  /\ i18nPc = "first"
  /\ IF i18nContent = "null"
     THEN I18nStep("second", ReadFile(CandidateOrder[2]),
                   Append(i18nReads, CandidateOrder[2]), i18nCallbacks)
     ELSE I18nStep("done", i18nContent, i18nReads,
                   Append(i18nCallbacks, NamespaceCallback(i18nContent)))

\* Lines 48-60: the second candidate was read.
I18nSecondCandidateRead ==
  /\ i18nPc = "second"
  /\ I18nStep("done", i18nContent, i18nReads,
              Append(i18nCallbacks,
                     IF i18nContent = "null" THEN NotFoundCallback
                     ELSE NamespaceCallback(i18nContent)))

\* i18next calls read with a language and a namespace; the files are what
\* they are.
InitI18n ==
  /\ NoWindows /\ StartedMain
  /\ SettingsIdle /\ lastMsg = NoMsg /\ ProtocolFresh(FALSE, FALSE) /\ ModelsIdle /\ LaterIdle
  /\ i18nLanguage \in Languages
  /\ i18nNamespace \in Namespaces
  /\ i18nFiles \in [Trees -> FileKinds]
  /\ i18nPc = "start"
  /\ i18nContent = "none"
  /\ i18nReads = <<>>
  /\ i18nCallbacks = <<>>

NextI18n ==
  \/ I18nFirstRead
  \/ I18nCommonRead
  \/ I18nFirstCandidateRead
  \/ I18nSecondCandidateRead

SpecI18n == InitI18n /\ [][NextI18n]_vars

(***************************************************************************)
(* 'check-model-exists' (ipcHandlers.ts, lines 554-572) and the models     *)
(* directory (appData.ts, lines 210-214).                                  *)
(***************************************************************************)
\* What a renderer may pass as the model: a file name, the empty string, a
\* path that leaves the directory (it names the settings file, one level up),
\* or something that is not a string.
ModelArgs ==
  {[kind |-> "string", name |-> n] :
     n \in ModelNames \cup {"", "../uxon-dynamics-options.json"}}
    \cup {[kind |-> "undefined", name |-> ""]}

NoPath == [dir |-> "none", name |-> ""]

\* A faulty getModelsDirPath: a path whether appDataPath is set or not.
getModelsDirPathAlways == [dir |-> "models", name |-> ""]

\* getModelsDirPath (appData.ts, lines 210-214): null when appDataPath is not set
getModelsDirPath == IF appDataPath THEN [dir |-> "models", name |-> ""] ELSE NoPath

\* path.join(modelsDir, model) (line 561): an empty string adds nothing, '..'
\* goes one directory up.  (An argument that is not a string makes it throw.)
pathJoin(dir, model) ==
  CASE model.name = "" -> dir
    [] model.name = "../uxon-dynamics-options.json" ->
         [dir |-> "app", name |-> "uxon-dynamics-options.json"]
    [] OTHER -> [dir |-> dir.dir, name |-> model.name]

\* fs access(path) resolves: the path names something that is there.
access(path) ==
  CASE path.dir = "models" /\ path.name = "" -> modelsDir.exists
    [] path.dir = "models" -> modelsDir.exists /\ path.name \in modelsDir.files
    [] path.dir = "app" -> settingsFile.exists
    [] OTHER -> FALSE

\* The handler (lines 554-572): false when there is no directory path, false
\* from the catch when path.join throws, else what access gives.
checkModelExists(model) ==
  IF getModelsDirPath = NoPath THEN "false"
  ELSE IF model.kind # "string" THEN "false"
  ELSE IF access(pathJoin(getModelsDirPath, model)) THEN "true" ELSE "false"

CheckModelExists(model) ==
  /\ CanInvoke("check-model-exists")
  /\ modelCheck' = [arg |-> model, result |-> checkModelExists(model)]
  /\ ret' = NoCall
  /\ UNCHANGED <<regVars, startVars, procVars, globalVars, ipcVars, dataVars, authVars,
                 linkVars, settingsVars, controlVars, protoVars, i18nVars, modelsDir,
                 laterVars>>

\* A running process whose handlers are registered; appDataPath set, or reset
\* to null by resetGlobalState (globalState.ts, lines 96-101); the directory
\* and the files as they may be on disk.
InitModels ==
  /\ UDXWindows = <<1>>
  /\ meta = [w \in Win |-> NewMetadata("main")]
  /\ browser = [w \in Win |-> IF w = 1 THEN "alive" ELSE "none"]
  /\ call = [w \in Win |-> IF w = 1 THEN "returned" ELSE "none"]
  /\ closeCalled = {}
  /\ ret = NoCall
  /\ pc = "done" /\ server = "true" /\ database = "true" /\ initWin = NoWindow
  /\ exit = "running" /\ relaunch = "none"
  /\ envKey = TRUE /\ store = TRUE /\ authToken = NoToken
  /\ appDataPath \in BOOLEAN
  /\ ipcHandlersRegistered = TRUE /\ tray = "disabled"
  /\ invokeHandlers = ChannelsOfKind(DOMAIN RegistrationOrder, "handle")
  /\ listeners = ChannelsOfKind(DOMAIN RegistrationOrder, "on")
  /\ registerCalls = [c \in Channels |-> 1]
  /\ launch = "later"
  /\ settingsFile \in {NoFile, writeJson(createDefaultSettings)}
  /\ firstRead = NotRead
  /\ clearAuthPc = 0 /\ atInvoke = [windows |-> {}, token |-> FALSE]
  /\ linkArg = [kind |-> "none", protocol |-> "", href |-> <<>>]
  /\ linkOpened = [called |-> FALSE, href |-> <<>>]
  /\ SettingsIdle /\ lastMsg = NoMsg /\ ProtocolFresh(FALSE, FALSE) /\ I18nIdle
  /\ LaterIdle
  /\ \E files \in SUBSET ModelNames :
        \/ modelsDir = [exists |-> TRUE, files |-> files]
        \/ modelsDir = [exists |-> FALSE, files |-> {}]
  /\ modelCheck = NoCheck

NextModels == \E model \in ModelArgs : CheckModelExists(model)

SpecModels == InitModels /\ [][NextModels]_vars

(***************************************************************************)
(* The settings panel of the renderer (unnamed/part_002, lines 85-192) and *)
(* the file methods of the bridge it calls (preload/index.ts, lines 54-58).*)
(***************************************************************************)
\* The methods of window.udx.file (preload/index.ts, lines 55-57; the UdxAPI
\* type, preload/types.ts, lines 54-57).
BridgeFile == {"read", "readSettings"}

\* A bridge that also has the method the panel calls.
callFileMethodAlways(method) == "returned"

\* Calling window.udx.file.<method>(...): a method the bridge object does not
\* have is undefined, and calling it throws a TypeError.
callFileMethod(method) == IF method \in BridgeFile THEN "returned" ELSE "TypeError"

\* The members of the appOptions object (types/index.ts, lines 19-24) and the
\* lang member of udxSettings (line 14), as paths of a document.
AppOptionsPaths ==
  {"appOptions.notifications", "appOptions.soundFx", "appOptions.streamerMode",
   "appOptions.darkMode"}
LangPath == "udxSettings.lang"

\* appSettings?.appOptions (part_002, line 113): the document has the member.
hasAppOptions(doc) == \E p \in doc : p[1] \in AppOptionsPaths

\* { ...doc, [path]: value }
SetMember(doc, path, value) == {p \in doc : p[1] # path} \cup {<<path, value>>}

\* { ...fullSettings, appOptions: newSettings } (lines 149-152), newSettings
\* being the appOptions of the document from.
WithAppOptions(fullSettings, from) ==
  {p \in fullSettings : p[1] \notin AppOptionsPaths}
    \cup {p \in from : p[1] \in AppOptionsPaths}

\* loadSettings (lines 108-121), run when the panel opens: settings is set
\* only when read-settings gave a document with an appOptions member; a
\* rejection is caught and logged.
PanelLoadSettings ==
  /\ CanInvoke("read-settings")
  /\ panelPc = "idle"
  /\ LET r == loadAppSettings(TRUE)
     IN  panelSettings' = IF r.state = "returned" /\ hasAppOptions(r.doc)
                          THEN [loaded |-> TRUE, doc |-> r.doc]
                          ELSE panelSettings
  /\ ret' = NoCall
  /\ UNCHANGED <<regVars, startVars, procVars, globalVars, ipcVars, dataVars, authVars,
                 linkVars, exceptPanel, panelPc, panelChange>>

\* handleOptionChange (lines 141-161) up to its await: nothing when settings
\* is null; else the panel shows the new value and read-settings is invoked.
PanelOptionChange(path, value) ==
  /\ CanInvoke("read-settings")
  /\ panelPc = "idle"
  /\ IF ~panelSettings.loaded
     THEN /\ panelChange' = [kind |-> "option", path |-> path, value |-> value,
                             loaded |-> FALSE, done |-> TRUE, sent |-> FALSE,
                             shown |-> FALSE, prior |-> {}]
          /\ UNCHANGED <<panelSettings, panelPc>>
     ELSE /\ panelSettings' = [panelSettings EXCEPT !.doc = SetMember(@, path, value)]
          /\ panelPc' = "reading"
          /\ panelChange' = [kind |-> "option", path |-> path, value |-> value,
                             loaded |-> TRUE, done |-> FALSE, sent |-> FALSE,
                             shown |-> TRUE, prior |-> panelSettings.doc]
  /\ ret' = NoCall
  /\ UNCHANGED <<regVars, startVars, procVars, globalVars, ipcVars, dataVars, authVars,
                 linkVars, exceptPanel>>

\* What the write-settings handler does with the document the bridge passes
\* (ipcHandlers.ts, lines 609-619), when the bridge call was made at all.
PanelWrite(doc, called) ==
  IF called = "returned" THEN saveAppSettings(doc, TRUE) ELSE settingsFile

\* handleOptionChange from its await on (lines 147-159): the document read is
\* merged with the new appOptions and passed to window.udx.file.writeSettings;
\* whatever is thrown is caught, and the panel shows the old settings again.
PanelOptionChangeResumes ==
  /\ panelPc = "reading"
  /\ exit = "running"
  /\ LET fullSettings == loadAppSettings(TRUE)
         called == IF fullSettings.state = "returned"
                   THEN callFileMethod("writeSettings") ELSE "rejected"
     IN  /\ settingsFile' =
              PanelWrite(WithAppOptions(fullSettings.doc, panelSettings.doc), called)
         /\ panelSettings' = IF called = "returned" THEN panelSettings
                             ELSE [panelSettings EXCEPT !.doc = panelChange.prior]
         /\ panelChange' = [panelChange EXCEPT !.done = TRUE,
                                               !.sent = (called = "returned"),
                                               !.shown = (called = "returned")]
  /\ panelPc' = "idle"
  /\ ret' = NoCall
  /\ UNCHANGED <<regVars, startVars, procVars, globalVars, ipcVars, launch, firstRead,
                 authVars, linkVars, exceptPanel>>

\* handleChangeLanguage (lines 169-192): nothing when settings is null; else
\* the document with the new language is passed to
\* window.udx.file.writeSettings; whatever is thrown is caught, and the panel
\* shows the old settings again.
PanelChangeLanguage(lang) ==
  /\ CanInvoke("read-settings")
  /\ panelPc = "idle"
  /\ IF ~panelSettings.loaded
     THEN /\ panelChange' = [kind |-> "lang", path |-> LangPath, value |-> lang,
                             loaded |-> FALSE, done |-> TRUE, sent |-> FALSE,
                             shown |-> FALSE, prior |-> {}]
          /\ UNCHANGED <<panelSettings, settingsFile>>
     ELSE LET updatedSettings == SetMember(panelSettings.doc, LangPath, lang)
              called == callFileMethod("writeSettings")
          IN  /\ settingsFile' = PanelWrite(updatedSettings, called)
              /\ panelSettings' = IF called = "returned"
                                  THEN [panelSettings EXCEPT !.doc = updatedSettings]
                                  ELSE panelSettings
              /\ panelChange' = [kind |-> "lang", path |-> LangPath, value |-> lang,
                                 loaded |-> TRUE, done |-> TRUE,
                                 sent |-> (called = "returned"),
                                 shown |-> (called = "returned"),
                                 prior |-> panelSettings.doc]
  /\ ret' = NoCall
  /\ UNCHANGED <<regVars, startVars, procVars, globalVars, ipcVars, launch, firstRead,
                 authVars, linkVars, exceptPanel, panelPc>>

\* The languages the panel offers (lines 94-105), three of the ten.
PanelLangs == {"en", "fr", "ja"}

\* The settings files the panel may meet: the one initializeAppData made, and
\* files in the shape of the AppSettings type (put there by hand or by another
\* build), which are the ones the panel loads.
PanelFiles ==
  {createDefaultSettings}
    \cup {SetMember(SetMember(TypedSettings, LangPath, lang),
                    "appOptions.notifications", value) :
            lang \in PanelLangs, value \in {"true", "false"}}

\* A started process with one window whose renderer shows the panel.
InitPanel ==
  /\ UDXWindows = <<1>>
  /\ meta = [w \in Win |-> NewMetadata("main")]
  /\ browser = [w \in Win |-> IF w = 1 THEN "alive" ELSE "none"]
  /\ call = [w \in Win |-> IF w = 1 THEN "returned" ELSE "none"]
  /\ closeCalled = {}
  /\ ret = NoCall
  /\ \E doc \in PanelFiles : StartedWith(writeJson(doc))
  /\ SideInit

NextPanel ==
  \/ PanelLoadSettings
  \/ \E path \in AppOptionsPaths, value \in {"true", "false"} :
       PanelOptionChange(path, value)
  \/ PanelOptionChangeResumes
  \/ \E lang \in PanelLangs : PanelChangeLanguage(lang)

SpecPanel == InitPanel /\ [][NextPanel]_vars

(***************************************************************************)
(* The store and token channels with their results (ipcHandlers.ts, lines  *)
(* 407-483).  The store is a key-value file; the token sits in it under    *)
(* the key import.meta.env.VITE_AUTH_TOKEN names, next to any other key.   *)
(***************************************************************************)
\* The token's key and another key, as a renderer may pass them.
AuthTokenKey == "VITE_AUTH_TOKEN"
OtherKey == "theme"
StoreKeys == {AuthTokenKey, OtherKey}

\* The values a renderer passes, as a token or as the value of a key: nothing,
\* a string too short, two strings long enough, and something not a string.
StoreValues ==
  { NoToken,
    [str |-> TRUE, len |-> MinTokenLength - 1, blank |-> FALSE],
    [str |-> TRUE, len |-> MinTokenLength, blank |-> FALSE],
    [str |-> TRUE, len |-> MinTokenLength, blank |-> TRUE],
    [str |-> FALSE, len |-> MinTokenLength, blank |-> FALSE] }

\* store.get(key), store.set(key, val), store.delete(key): the token's key is
\* a key like any other.
storeGet(key) == IF key = AuthTokenKey THEN authToken ELSE storeOther

storeSet(key, val) ==
  /\ authToken' = IF key = AuthTokenKey THEN val ELSE authToken
  /\ storeOther' = IF key = AuthTokenKey THEN storeOther ELSE val

\* What the next call keeps of the one before it.
PrevCall == [channel |-> tokenCall.channel, arg |-> tokenCall.arg,
             before |-> tokenCall.before]

Called(channel, key, arg, returns, value) ==
  tokenCall' = [channel |-> channel, key |-> key, arg |-> arg, returns |-> returns,
                value |-> value, before |-> authToken, prev |-> PrevCall]

StoreRest ==
  /\ ret' = NoCall
  /\ UNCHANGED <<regVars, startVars, procVars, envKey, store, appDataPath,
                 ipcHandlersRegistered, tray, ipcVars, dataVars, authVars, linkVars,
                 exceptStore>>

\* 'electron-store-get' (lines 407-411)
ElectronStoreGet(key) ==
  /\ CanInvoke("electron-store-get")
  /\ Called("electron-store-get", key, NoToken, "value", storeGet(key))
  /\ UNCHANGED <<authToken, storeOther>>
  /\ StoreRest

\* 'electron-store-set' (lines 419-425): sets, then returns what get gives.
ElectronStoreSet(property, val) ==
  /\ CanInvoke("electron-store-set")
  /\ storeSet(property, val)
  /\ Called("electron-store-set", property, val, "value", val)
  /\ StoreRest

\* 'electron-store-delete' (lines 432-436)
ElectronStoreDelete(key) ==
  /\ CanInvoke("electron-store-delete")
  /\ storeSet(key, NoToken)
  /\ Called("electron-store-delete", key, NoToken, "undefined", NoToken)
  /\ StoreRest

\* 'electron-store-clear' (lines 442-446): every key goes.
ElectronStoreClear ==
  /\ CanInvoke("electron-store-clear")
  /\ authToken' = NoToken
  /\ storeOther' = NoToken
  /\ Called("electron-store-clear", "", NoToken, "undefined", NoToken)
  /\ StoreRest

\* 'set-auth-token' (lines 453-466) with its result: an invalid token throws
\* inside the try, as does a store.set that fails (ok is FALSE); the catch
\* returns false.
SetAuthTokenCall(token, ok) ==
  /\ CanInvoke("set-auth-token")
  /\ IF InvalidToken(token) \/ ~ok
     THEN /\ UNCHANGED authToken
          /\ Called("set-auth-token", AuthTokenKey, token, "false", NoToken)
     ELSE /\ authToken' = token
          /\ Called("set-auth-token", AuthTokenKey, token, "true", NoToken)
  /\ UNCHANGED storeOther
  /\ StoreRest

\* token || null (line 477): null for a value that is not there or is empty.
TokenOrNull(token) == IF token.len = 0 THEN NoToken ELSE token

\* 'get-auth-token' (lines 472-483)
GetAuthTokenCall ==
  /\ CanInvoke("get-auth-token")
  /\ Called("get-auth-token", AuthTokenKey, NoToken, "value", TokenOrNull(authToken))
  /\ UNCHANGED <<authToken, storeOther>>
  /\ StoreRest

\* A started process with one window, whose renderer invokes the channels.
InitStore == InitLink

NextStore ==
  \/ \E key \in StoreKeys : ElectronStoreGet(key)
  \/ \E key \in StoreKeys, val \in StoreValues : ElectronStoreSet(key, val)
  \/ \E key \in StoreKeys : ElectronStoreDelete(key)
  \/ ElectronStoreClear
  \/ \E token \in StoreValues, ok \in BOOLEAN : SetAuthTokenCall(token, ok)
  \/ GetAuthTokenCall

SpecStore == InitStore /\ [][NextStore]_vars

(***************************************************************************)
(* initializeI18n and ensureI18nInitialized (i18n.ts, lines 144-228).  The *)
(* module calls initializeI18n itself when it is loaded (line 228) and the *)
(* renderer's entry awaits ensureI18nInitialized (unnamed/part_000, line   *)
(* 113); a call is one of Callers.  The body of the promise runs between   *)
(* the calls, one awaited statement at a time.                             *)
(***************************************************************************)
\* A faulty guard: the promise under way is not looked at.
hasInitializationPromiseNever == FALSE

\* Line 152: if (initializationPromise)
hasInitializationPromise == initializationPromise # "null"

EnsureRest ==
  /\ ret' = NoCall
  /\ UNCHANGED <<regVars, startVars, procVars, globalVars, ipcVars, dataVars, authVars,
                 linkVars, exceptEnsure>>

\* A call of initializeI18n (lines 147-156 and 200), through
\* ensureI18nInitialized (lines 215-217) or at line 228: it returns at once
\* when isInitialized is set, returns the promise under way when there is
\* one, and else starts the initialisation and returns its promise.
ensureI18nInitialized(c) ==
  /\ exit = "running"
  /\ callers[c].state = "none"
  /\ IF isInitialized
     THEN /\ callers' = [callers EXCEPT ![c] = [state |-> "resolved",
                                                found |-> "isInitialized",
                                                sawInitialized |-> isInitialized]]
          /\ UNCHANGED <<initializationPromise, initPc, primaryRuns>>
     ELSE IF hasInitializationPromise
     THEN /\ callers' = [callers EXCEPT ![c] = [state |-> "waiting",
                                                found |-> "initializationPromise",
                                                sawInitialized |-> FALSE]]
          /\ UNCHANGED <<initializationPromise, initPc, primaryRuns>>
     ELSE /\ initializationPromise' = "pending"
          /\ initPc' = "discoverComponentNamespaces"
          /\ primaryRuns' = primaryRuns + 1
          /\ callers' = [callers EXCEPT ![c] = [state |-> "waiting",
                                                found |-> "nothing",
                                                sawInitialized |-> FALSE]]
  /\ UNCHANGED isInitialized
  /\ EnsureRest

\* Lines 160-161: the two awaited reads before i18n.init.  getSavedLanguage
\* awaits the bridge's log inside its catch (line 99), so it can throw (ok is
\* FALSE); discoverComponentNamespaces catches everything.
InitializationReads(ok) ==
  /\ initPc \in {"discoverComponentNamespaces", "getSavedLanguage"}
  /\ initPc' = IF initPc = "discoverComponentNamespaces" THEN "getSavedLanguage"
               ELSE IF ok THEN "init" ELSE "fallback"
  /\ UNCHANGED <<isInitialized, initializationPromise, primaryRuns, callers>>
  /\ EnsureRest

\* Lines 163-180: the primary i18n.init; isInitialized is set when it
\* succeeds, the catch of line 181 is entered when it throws.
PrimaryInit(ok) ==
  /\ initPc = "init"
  /\ IF ok
     THEN /\ isInitialized' = TRUE
          /\ initializationPromise' = "fulfilled"
          /\ initPc' = "done"
     ELSE /\ initPc' = "fallback"
          /\ UNCHANGED <<isInitialized, initializationPromise>>
  /\ UNCHANGED <<primaryRuns, callers>>
  /\ EnsureRest

\* Lines 181-196: the minimal i18n.init of the catch; when it throws too the
\* promise rejects and isInitialized stays false.
FallbackInit(ok) ==
  /\ initPc = "fallback"
  /\ isInitialized' = (isInitialized \/ ok)
  /\ initializationPromise' = IF ok THEN "fulfilled" ELSE "rejected"
  /\ initPc' = "done"
  /\ UNCHANGED <<primaryRuns, callers>>
  /\ EnsureRest

\* The promise a call returned settles as the initialisation's promise did.
CallSettles(c) ==
  /\ callers[c].state = "waiting"
  /\ initializationPromise \in {"fulfilled", "rejected"}
  /\ callers' = [callers EXCEPT ![c] =
                   [callers[c] EXCEPT
                      !.state = IF initializationPromise = "fulfilled"
                                THEN "resolved" ELSE "rejected",
                      !.sawInitialized = isInitialized]]
  /\ UNCHANGED <<isInitialized, initializationPromise, initPc, primaryRuns>>
  /\ EnsureRest

\* A started process with one window, whose renderer has loaded i18n.ts.
InitEnsure == InitLink

NextEnsure ==
  \/ \E c \in Callers : ensureI18nInitialized(c)
  \/ \E ok \in BOOLEAN : InitializationReads(ok)
  \/ \E ok \in BOOLEAN : PrimaryInit(ok)
  \/ \E ok \in BOOLEAN : FallbackInit(ok)
  \/ \E c \in Callers : CallSettles(c)

SpecEnsure == InitEnsure /\ [][NextEnsure]_vars

(***************************************************************************)
(* Properties.                                                             *)
(***************************************************************************)

\* C1: once registerIpcHandlers has run, every channel the preload bridge names
\* in an ipcRenderer.invoke call has an ipcMain.handle handler and no listener
\* in its place, and every channel it names in an ipcRenderer.send call has an
\* ipcMain.on listener and no handler in its place.
C1_BridgeChannelsHandled ==
  ipcHandlersRegistered =>
    /\ \A c \in BridgeInvoke : c \in invokeHandlers /\ c \notin listeners
    /\ \A c \in BridgeSend : c \in listeners /\ c \notin invokeHandlers

C1_Witness ==
  /\ ipcHandlersRegistered
  /\ pc = "done"
  /\ Alive # {}
  /\ \A c \in Channels : registerCalls[c] = 1

\* C2: whatever argument the open-external-link listener receives, it passes
\* an href to shell.openExternal only if the argument is an object whose
\* protocol is exactly 'https:' and whose href has no character in
\* U+0000-U+001F or U+007F-U+009F, and the href it passes is the argument's.
C2_OnlySafeHttpsOpened ==
  linkOpened.called =>
    /\ linkArg.kind = "object"
    /\ linkArg.protocol = "https:"
    /\ \A i \in 1..Len(linkArg.href) :
         /\ linkArg.href[i] \notin 0..31
         /\ linkArg.href[i] \notin 127..159
    /\ linkOpened.href = linkArg.href

C2_Witness ==
  /\ linkOpened.called
  /\ linkOpened.href = <<32, 160>>

\* C3: in a run of the clear-auth-token handler the token is deleted before
\* any window is told to close, and app.relaunch is called only when the token
\* is gone from the store and close() has been called on every window that was
\* in the registry when the handler was invoked.
C3_DeleteCloseRelaunch ==
  /\ HandlerDid("closeAllWindows") => authToken = NoToken
  /\ relaunch = "clear-auth-token" =>
       /\ authToken = NoToken
       /\ \A w \in atInvoke.windows : w \in closeCalled \/ browser[w] # "alive"

C3_Witness ==
  /\ relaunch = "clear-auth-token"
  /\ exit = "running"
  /\ atInvoke.token
  /\ atInvoke.windows # {}
  /\ atInvoke.windows \subseteq closeCalled

\* C4: the two health checks are started together; initializeMainProcess is
\* at a step after performHealthChecks only if both checks returned true; and
\* the exit performHealthChecks makes happens only when a check returned false
\* or threw.
C4_HealthGate ==
  /\ (server = "idle") <=> (database = "idle")
  /\ pc \in AfterHealthChecks => (server = "true" /\ database = "true")
  /\ (exit = "exit1" /\ pc = "performHealthChecks") =>
       ~(server = "true" /\ database = "true")

C4_Witness ==
  /\ exit = "exit1"
  /\ pc = "performHealthChecks"
  /\ server = "true"
  /\ database = "false"

\* C5: no window has been constructed (no createWindow call has begun) unless
\* both health checks have returned true.
C5_NoWindowBeforeHealthChecks ==
  \A w \in Win :
    (browser[w] # "none" \/ call[w] # "none") => (server = "true" /\ database = "true")

\* The registered windows of type t, and where a registered window stands in
\* the registry's insertion order.
RegisteredOfType(t) == {w \in Win : Has(w) /\ meta[w].type = t}
PositionOf(w) == CHOOSE i \in 1..Len(UDXWindows) : UDXWindows[i] = w

\* C6 as stated: when two registered windows share a type, the lookup by that
\* type gives the one whose createWindow call began first (the lower id).
C6_FirstCreated ==
  \A t \in UDXPossibleWindows :
    Cardinality(RegisteredOfType(t)) >= 2 =>
      getWindowMetadata(TypeOf(t)) = Min(RegisteredOfType(t))

\* C6 amended: when registered windows share a type, the lookup by that type
\* gives the one that entered the registry first, that is the one whose content
\* finished loading first, whatever the order in which the calls began.
C6_FirstRegistered ==
  \A t \in UDXPossibleWindows :
    RegisteredOfType(t) # {} =>
      /\ getWindowMetadata(TypeOf(t)) \in RegisteredOfType(t)
      /\ \A w \in RegisteredOfType(t) :
           PositionOf(getWindowMetadata(TypeOf(t))) <= PositionOf(w)

C6_Witness ==
  /\ UDXWindows = <<2, 1>>
  /\ meta[1].type = meta[2].type
  /\ getWindowMetadata(TypeOf(meta[1].type)) = 2

\* The identifier is neither the id nor the type of a registered window.
MatchesNothing(identifier) ==
  \A i \in 1..Len(UDXWindows) :
    /\ ~(identifier.kind = "id" /\ identifier.n = UDXWindows[i])
    /\ ~(identifier.kind = "type" /\ identifier.t = meta[UDXWindows[i]].type)

\* C7: a call of closeWindow, minimizeWindow, maximizeWindow, focusWindow,
\* hideWindow or showWindow with an identifier that is neither the id nor the
\* type of a registered window returns false and changes neither the registry
\* nor any window's flags nor any native window.
C7_MissReturnsFalse ==
  [][\A identifier \in Identifiers :
       (/\ MatchesNothing(identifier)
        /\ \/ closeWindow(identifier)
           \/ minimizeWindow(identifier)
           \/ maximizeWindow(identifier)
           \/ focusWindow(identifier)
           \/ hideWindow(identifier)
           \/ showWindow(identifier))
       => (ret' = "false" /\ UNCHANGED <<UDXWindows, meta, browser, call, closeCalled>>)]_vars

C7_Witness ==
  /\ ret = "false"
  /\ Len(UDXWindows) = 2
  /\ \E w \in Win : meta[w].isMaximized /\ meta[w].isFocused
  /\ closeCalled # {}

\* C8: a window whose createWindow call returned its id is in the registry
\* for as long as its 'closed' event has not been processed; once it has, the
\* id is in the registry no more, no lookup and no listing gives it, and the
\* step that processed the event removed no other entry and moved none.
C8_RegisteredUntilClosed ==
  [][\A w \in Win :
       /\ (call'[w] = "returned" /\ browser'[w] = "alive") =>
            \E i \in 1..Len(UDXWindows') : UDXWindows'[i] = w
       /\ browser'[w] = "destroyed" =>
            /\ \A i \in 1..Len(UDXWindows') : UDXWindows'[i] # w
            /\ getWindowMetadata(IdOf(w))' = NoWindow
            /\ \A t \in UDXPossibleWindows :
                 \A i \in 1..Len(getWindowsByType(t)') : getWindowsByType(t)'[i] # w
       /\ (browser[w] = "alive" /\ browser'[w] = "destroyed") =>
            UDXWindows' = SelectSeq(UDXWindows, LAMBDA x : x # w)]_vars

C8_Witness ==
  /\ \E w \in Win : call[w] = "returned" /\ browser[w] = "destroyed"
  /\ \E w \in Win : call[w] = "returned" /\ browser[w] = "alive" /\ Has(w)

\* C9: no channel receives more than one registration call (ipcMain.handle or
\* ipcMain.on) in the life of the process, registerIpcHandlers being called
\* again or not.
C9_RegisteredOnce == \A c \in Channels : registerCalls[c] <= 1

\* C10: on a first launch the settings file exists, holding the default
\* document, from before the read-settings handler can serve a request; and
\* the first read-settings of the run, when it returns and no write-settings
\* came before it, returns the default document: language 'en', the two
\* first-run flags true, the four application options true.
C10_FirstReadIsDefault ==
  launch = "first" =>
    /\ "read-settings" \in invokeHandlers => settingsFile.exists
    /\ ("read-settings" \in invokeHandlers /\ firstRead.state = "none") =>
         /\ JsonValid(settingsFile.text)
         /\ Cardinality(JsonParse(settingsFile.text)) = 7
         /\ \A p \in JsonParse(settingsFile.text) :
              p[2] = IF p[1] = "udx.lang" THEN "en" ELSE "true"
    /\ firstRead.state = "returned" =>
         /\ Cardinality(firstRead.doc) = 7
         /\ \E p \in firstRead.doc : p[1] = "udx.lang" /\ p[2] = "en"
         /\ \A p \in firstRead.doc : p[2] = IF p[1] = "udx.lang" THEN "en" ELSE "true"
         /\ {p[1] : p \in firstRead.doc} =
              {"udx.lang", "udx.firstTimeJoinOrg", "udx.firstTimeCreateOrg",
               "appOption.notification", "appOption.soundFx",
               "appOption.streamerMode", "appOption.darkMode"}

C10_Witness ==
  /\ launch = "first"
  /\ firstRead.state = "returned"
  /\ firstRead.doc # {}

\* A document whose members are all strings and booleans, as the AppSettings
\* type has them.
Representable(doc) == \A m \in doc : m[2] # "undefined"

\* C11: for every settings document d (its members strings and booleans), when
\* a write-settings(d) returned true, no other write-settings was under way
\* during it or came after it, and read-settings is invoked next, that read
\* returns a document equal to d.
C11_RoundTrip ==
  ( /\ settingsRead.state # "none"
    /\ ~settingsRead.inFlight
    /\ settingsRead.after.done
    /\ ~settingsRead.after.raced
    /\ Representable(settingsRead.after.doc) ) =>
      /\ settingsRead.state = "returned"
      /\ settingsRead.doc = settingsRead.after.doc

C11_Witness ==
  /\ settingsRead.state = "returned"
  /\ ~settingsRead.inFlight
  /\ settingsRead.after = [done |-> TRUE, doc |-> PanelSettings, raced |-> FALSE]
  /\ settingsRead.doc = PanelSettings

\* C19: when two write-settings invocations overlapped and both returned true,
\* a read-settings that follows returns the document of the one that returned
\* last (as JSON holds it), never a mixture and never a failure to parse.
C19_LastWriteWins ==
  ( /\ settingsRead.state # "none"
    /\ ~settingsRead.inFlight
    /\ settingsRead.after.done
    /\ settingsRead.after.raced ) =>
      /\ settingsRead.state = "returned"
      /\ settingsRead.doc = JsonParse(JsonStringify(settingsRead.after.doc))

\* C12: no invoke handler rejects to its caller; in particular read-settings
\* resolves with a sentinel when the settings file cannot be read or parsed.
\* Stated on read-settings: its first invocation of the run did not reject.
C12_ReadSettingsNeverRejects == firstRead.state # "rejected"

\* C13: with two or more registered windows, a close-window, minimize-window
\* or maximize-window message changes nothing of any window but its sender,
\* and does to the sender what the channel names.
C13_ControlsActOnSender ==
  [][ (lastMsg' # lastMsg /\ Len(UDXWindows) >= 2) =>
        LET s == lastMsg'.sender IN
          /\ \A v \in Win \ {s} :
                /\ browser'[v] = browser[v]
                /\ meta'[v] = meta[v]
                /\ (v \in closeCalled') = (v \in closeCalled)
          /\ UDXWindows' = UDXWindows
          /\ lastMsg'.channel = "close-window" => s \in closeCalled'
          /\ lastMsg'.channel = "minimize-window" => meta'[s].isMinimized
          /\ lastMsg'.channel = "maximize-window" =>
                meta'[s].isMaximized = ~meta[s].isMaximized ]_vars

C13_Witness ==
  /\ UDXWindows = <<1, 2>>
  /\ meta[1].type = meta[2].type
  /\ lastMsg.channel = "close-window"
  /\ lastMsg.sender = 2
  /\ closeCalled = {2}
  /\ meta[2].isMinimized
  /\ ~meta[1].isMinimized

\* C14: when the construction of the native window or the load of its content
\* fails, the createWindow call rejects and returns no id; the step that
\* rejects leaves the registry as it was, and the id of a rejected call is not
\* a key of the registry.
C14_RejectLeavesRegistry ==
  [][ \A w \in Win :
        /\ (call[w] # "rejected" /\ call'[w] = "rejected") => UDXWindows' = UDXWindows
        /\ call'[w] = "rejected" => \A i \in 1..Len(UDXWindows') : UDXWindows'[i] # w ]_vars

C14_Witness ==
  /\ call[1] = "rejected"
  /\ browser[1] = "alive"
  /\ call[2] = "returned"
  /\ UDXWindows = <<2>>

\* C15: once isProtocolRegistered() has returned true it returns true in every
\* later state, further calls of initializeProtocols included.
C15_NeverUnregistered == seenRegistered => protocolState.isRegistered

\* C16: on macOS initializeProtocols itself makes no setAsDefaultProtocolClient
\* call; the call comes from the 'will-finish-launching' listener only, and
\* isRegistered is true only after that listener made it.
C16_MacOSDeferred ==
  isMacOS =>
    /\ directAttempts = 0
    /\ protocolState.isRegistered => eventAttempts > 0

\* The files electronBackend.read may read for the namespace at hand.
Candidates == IF IsDefaultNamespace THEN {"common"} ELSE {"components", "apps"}

\* C17: whatever the language, the namespace and the files, the callback is
\* only ever called with a null error; a read that is over called it once; and
\* when none of the candidate files could be read, with an empty set.
C17_CallbackNeverFails ==
  /\ \A i \in 1..Len(i18nCallbacks) : i18nCallbacks[i].err = "null"
  /\ i18nPc = "done" =>
       /\ Len(i18nCallbacks) = 1
       /\ (\A t \in Candidates : i18nFiles[t] = "missing") =>
            i18nCallbacks[1].data = EmptySet

C17_Witness ==
  /\ i18nPc = "done"
  /\ ~IsDefaultNamespace
  /\ i18nFiles["components"] = "missing"
  /\ i18nFiles["apps"] = "invalid"
  /\ i18nCallbacks = <<CatchCallback>>

\* C18: for a namespace that is not a default one the components file is read
\* first and the apps file only after the components read gave null; when both
\* files exist the result comes from the components file; for a default
\* namespace only the common file is read.
C18_ComponentsBeforeApps ==
  /\ IsDefaultNamespace => \A i \in 1..Len(i18nReads) : i18nReads[i] = "common"
  /\ ~IsDefaultNamespace =>
       /\ i18nReads \in {<<>>, <<"components">>, <<"components", "apps">>}
       /\ Len(i18nReads) = 2 => i18nFiles["components"] = "missing"
       /\ ( /\ i18nPc = "done"
            /\ i18nFiles["components"] # "missing"
            /\ i18nFiles["apps"] # "missing" ) =>
              /\ i18nReads = <<"components">>
              /\ i18nFiles["components"] = "keyed" =>
                   i18nCallbacks[1].data = [from |-> "components", part |-> "namespace"]
              /\ i18nCallbacks[1].data.from # "apps"

C18_Witness ==
  /\ i18nPc = "done"
  /\ i18nNamespace = "settings"
  /\ i18nFiles["components"] = "keyed"
  /\ i18nFiles["apps"] = "keyed"
  /\ i18nCallbacks = <<[err |-> "null", data |-> [from |-> "components", part |-> "namespace"]]>>

Persisted(path) ==
  IF JsonValid(settingsFile.text) /\ \E p \in JsonParse(settingsFile.text) : p[1] = path
  THEN ValueOf(JsonParse(settingsFile.text), path)
  ELSE "absent"

\* C22: when the user has switched an option or chosen a language in the
\* settings panel, the panel having loaded its settings, and the panel's
\* handler has finished, the document was sent through the bridge and the
\* settings file holds the value chosen, so that a read-settings invoked from
\* then on returns it.
C22_PanelChangePersisted ==
  (panelChange.kind \in {"option", "lang"} /\ panelChange.loaded /\ panelChange.done)
    => panelChange.sent /\ Persisted(panelChange.path) = panelChange.value

\* The panel never sends a document: no change of the user reaches the file.
C22_NothingIsSent ==
  /\ ~panelChange.sent
  /\ \E doc \in PanelFiles : settingsFile = writeJson(doc)

\* The close-window message of w, the only registered window, was handled:
\* close() was called on w and w is not closed yet.
ClosingTheOnlyRegistered(w) ==
  /\ exit = "running"
  /\ UDXWindows = <<w>>
  /\ w \in closeCalled
  /\ lastMsg.channel = "close-window" /\ lastMsg.sender = w

\* No step taken while two registered windows remain quits the application.
NoQuitWhileAnotherRemains == [][Len(UDXWindows) >= 2 => exit' = "running"]_vars

\* C23 as stated: when the only registered window is closed through
\* close-window the application quits in the end, and while another registered
\* window remains closing one does not quit it.
C23_LastCloseQuits ==
  /\ \A w \in Win : ClosingTheOnlyRegistered(w) ~> (exit = "quit")
  /\ NoQuitWhileAnotherRemains

\* What does hold: the application quits in the end unless a window outside
\* the registry exists by then, one that is loading or one whose load failed.
QuitsUnlessUnregisteredWindow ==
  \A w \in Win : ClosingTheOnlyRegistered(w) ~> (exit = "quit" \/ Alive \ {w} # {})

\* C24: set-auth-token stores the token and returns true only for a string of
\* at least 10 characters; for any other argument it returns false and leaves
\* the stored token as it was, and the get-auth-token that follows returns
\* what get-auth-token gave before the rejected call.
C24_SetAuthTokenValidates ==
  /\ tokenCall.channel = "set-auth-token" =>
       /\ tokenCall.returns = "true" =>
            /\ tokenCall.arg.str /\ tokenCall.arg.len >= MinTokenLength
            /\ authToken = tokenCall.arg
       /\ ~(tokenCall.arg.str /\ tokenCall.arg.len >= MinTokenLength) =>
            /\ tokenCall.returns = "false"
            /\ authToken = tokenCall.before
  /\ ( /\ tokenCall.channel = "get-auth-token"
       /\ tokenCall.prev.channel = "set-auth-token"
       /\ ~(tokenCall.prev.arg.str /\ tokenCall.prev.arg.len >= MinTokenLength) )
       => tokenCall.value = TokenOrNull(tokenCall.prev.before)

\* A token was stored, a set-auth-token with a string too short was rejected,
\* and get-auth-token was invoked after it.
C24_Witness ==
  /\ tokenCall.channel = "get-auth-token"
  /\ tokenCall.prev.channel = "set-auth-token"
  /\ tokenCall.prev.arg = [str |-> TRUE, len |-> MinTokenLength - 1, blank |-> FALSE]
  /\ tokenCall.prev.before.str /\ tokenCall.prev.before.len >= MinTokenLength
  /\ tokenCall.value = tokenCall.prev.before

\* C27: in every state the value under the token's key is absent or a string
\* of at least 10 characters, and it changes only through set-auth-token and
\* clear-auth-token: no electron-store-set, electron-store-delete or
\* electron-store-clear sets, replaces or removes it.
C27_TokenOnlyThroughTokenChannels ==
  /\ [](authToken = NoToken \/ (authToken.str /\ authToken.len >= MinTokenLength))
  /\ [][authToken' # authToken
          => tokenCall'.channel \in {"set-auth-token", "clear-auth-token"}]_vars

\* C25: whatever the number and the timing of the calls of
\* ensureI18nInitialized, the primary initialisation is started at most once,
\* a call that has not settled waits for that one run, and a call has resolved
\* only when isInitialized was true.
C25_InitializedOnce ==
  /\ primaryRuns <= 1
  /\ \A c \in Callers :
       /\ callers[c].state = "waiting" =>
            primaryRuns = 1 /\ initializationPromise # "null"
       /\ callers[c].state = "resolved" => callers[c].sawInitialized /\ isInitialized

\* Calls were made before the initialisation started, while it ran and after
\* it; all have resolved.
C25_Witness ==
  /\ \A c \in Callers : callers[c].state = "resolved"
  /\ \A f \in {"nothing", "initializationPromise", "isInitialized"} :
       \E c \in Callers : callers[c].found = f
  /\ primaryRuns = 1
  /\ initPc = "done"

\* The members the readers of the settings look for: the settings panel
\* (unnamed/part_002, line 113, and the four options it shows) and
\* getSavedLanguage (i18n.ts, line 92); they are those of the AppSettings type.
ReaderPaths == {LangPath} \cup AppOptionsPaths

\* The paths of the document the settings file holds.
FilePaths == {p[1] : p \in JsonParse(settingsFile.text)}

\* C26: on a first run the settings document that was created has the
\* structure its readers use: udxSettings with lang, and appOptions with
\* notifications, soundFx, streamerMode and darkMode.
C26_FirstRunStructure ==
  (launch = "first" /\ settingsFile.exists /\ JsonValid(settingsFile.text))
    => ReaderPaths \subseteq FilePaths

\* C28: in a run made of the startup and of 'second-instance' events, the
\* tray's menu not being used, at most one window exists or is being created
\* at any time: 'second-instance' starts a createWindow call only when no
\* window is registered and none is loading.
C28_AtMostOneWindow == Cardinality(Alive) <= 1

\* C29: every entry of the registry refers to a window that is not closed,
\* however the createWindow calls and the 'closed' events interleave, a window
\* closed while its content loads included.
C29_RegistryHoldsOpenWindows ==
  \A i \in 1..Len(UDXWindows) : browser[UDXWindows[i]] = "alive"

\* One window was closed while its content loaded, its createWindow call not
\* having settled yet, and another window is registered.
C29_Witness ==
  \E w, v \in Win :
    /\ browser[w] = "destroyed" /\ call[w] = "loading"
    /\ Has(v)

\* C30: isFocused follows the focus: at most one registered window has
\* isFocused = true at any time, the focus being on one window at most.
C30_AtMostOneFocused ==
  Cardinality({w \in Win : Has(w) /\ meta[w].isFocused}) <= 1

====
